---- MODULE Spec2Model ----
(***************************************************************************)
(* Model of the DEGA "Formula" builder (the_dega_template_full.py, v4.7):  *)
(* the template catalog, the marker post-processing functions and the      *)
(* reconciliation driver that converges a host project (folders,           *)
(* timelines, tracks, markers, project settings) toward the catalog.       *)
(*                                                                         *)
(* Representation.                                                         *)
(*  - A name that the code inspects (timeline titles, folder names) is a   *)
(*    sequence of one-character strings; a character outside ASCII is the  *)
(*    token "U+XXXX" of its code point.  Names that are only stored (track *)
(*    labels, marker labels, colors) are strings, with "[U+XXXX]" for a    *)
(*    non-ASCII character.  Note texts are abbreviated to their first 28   *)
(*    characters.                                                          *)
(*  - A float number of seconds is an integer number of ticks,             *)
(*    TicksPerSecond ticks to the second, chosen so that one frame at      *)
(*    29.97 fps (100/2997 s) is exactly FrameTicks(FPS) = 100000 ticks and *)
(*    one millisecond is 2997 ticks.  Arithmetic on ticks is exact; the    *)
(*    rounding noise of binary floating point is not modelled.             *)
(*  - The host application is the state the driver acts on; a host call    *)
(*    answers according to that state.                                     *)
(***************************************************************************)
EXTENDS Integers, Sequences, FiniteSets, TLC

VARIABLES
  folders,      \* host: set of folder paths (sequence of folder names from the root)
  tls,          \* host: the project's timelines, in GetTimelineByIndex order
  settings,     \* host: project settings, key -> value (Null when unset)
  unreadable,   \* host: setting keys for which GetSetting raises
  newTracks,    \* host: number of video/audio tracks of a freshly created timeline
  api,          \* host: which call shapes and quirks this host build has
  curFolder,    \* host: media pool current folder
  curTimeline,  \* host: index of the current timeline (0 = none)
  clips,        \* host: number of media pool clips imported
  force_env,    \* environment: DEGA_PRINCIPLE_FORCE_RESEED
  pc,           \* driver: position in main()
  run,          \* driver: ordinal of the current run of main()
  top,          \* driver: main()'s dict top, bin name -> folder
  pillar_folder,\* driver: main()'s pillar_folder
  sub_folder,   \* driver: main()'s sub_folder
  seed_cnt,     \* driver: cnt read by seed_principle_markers_across_project
  stats,        \* driver: BuildStats
  result,       \* driver: value returned by main()
  calls,        \* observation: kinds of host calls issued in the current run
  last,         \* observation: what the last driver step did
  start,        \* observation: host state at the start of the current run
  in_pack,      \* function harness: the marker pack under test
  hist,         \* function harness: pack, butt_join(pack), butt_join(butt_join(pack)), ...
  out_frames,   \* function harness: frame numbers of the pack's offsets
  out_durs,     \* function harness: durations of the AddMarker calls placing the pack
  out_calls,    \* function harness: the placement of the pack, marker by marker
  the_title,    \* name harness: the timeline name under classification
  the_pack,     \* name harness: <<the pack the name resolved to>>, <<>> before the call
  the_enriched, \* name harness: <<input and output of the enrichment call>>, <<>> before it
  manifest,     \* manifest tools: <<the manifest file>>, <<>> while there is none
  report        \* manifest tools: <<the verification report>>, <<>> before verification

vars == <<folders, tls, settings, unreadable, newTracks, api, curFolder, curTimeline,
          clips, force_env, pc, run, top, pillar_folder, sub_folder, seed_cnt,
          stats, result, calls, last, start, in_pack, hist, out_frames,
          out_durs, out_calls, the_title, the_pack, the_enriched, manifest,
          report>>

hostVars == <<folders, tls, settings, unreadable, newTracks, api, curFolder,
              curTimeline, clips>>
driverVars == <<force_env, pc, run, top, pillar_folder, sub_folder, seed_cnt,
                stats, result, calls, last, start>>
harnessVars ==
  <<in_pack, hist, out_frames, out_durs, out_calls, the_title, the_pack,
    the_enriched, manifest, report>>

Null == "None"

-----------------------------------------------------------------------------
(* Bounds of the model.                                                    *)

\* runs of main() against one project
MaxRuns == 2
\* video (and audio) tracks a host gives a freshly created timeline
MaxNewTracks == 2
\* markers in a generated pack
MaxLen == 2
\* generated offsets are 0 .. MaxOffsetHalfFrames half frames
MaxOffsetHalfFrames == 4
\* generated durations are 0 .. MaxDurHalfFrames half frames
MaxDurHalfFrames == 2
\* butt-join passes applied to one pack
MaxPasses == 2
\* words in a generated timeline name
MaxWords == 2
\* markers of the manifest projects sit on frames 0 .. MaxFrame
MaxFrame == 2
\* frame tolerances 0 .. MaxTolerance of a verification
MaxTolerance == 1
\* expected markers of a timeline in a manifest from elsewhere
MaxExpected == 2

-----------------------------------------------------------------------------
(* Strings as character sequences (str.lower, str.replace, in, startswith) *)

Upper == <<"A","B","C","D","E","F","G","H","I","J","K","L","M",
           "N","O","P","Q","R","S","T","U","V","W","X","Y","Z">>
LowerOf == <<"a","b","c","d","e","f","g","h","i","j","k","l","m",
             "n","o","p","q","r","s","t","u","v","w","x","y","z">>

LowerChar(c) ==
  IF \E i \in 1..26 : Upper[i] = c
    THEN LowerOf[CHOOSE i \in 1..26 : Upper[i] = c]
    ELSE c

Lower(s) == [i \in 1..Len(s) |-> LowerChar(s[i])]

Replace(s, a, b) == [i \in 1..Len(s) |-> IF s[i] = a THEN b ELSE s[i]]

\* p occurs in s at position i
OccursAt(s, p, i) == \A j \in 1..Len(p) : s[i + j - 1] = p[j]

StartsWith(s, p) == Len(p) <= Len(s) /\ OccursAt(s, p, 1)

Contains(s, p) == \E i \in 1..(Len(s) - Len(p) + 1) : OccursAt(s, p, i)

\* variant: the list as declared
AsDeclared(s) == s

Reverse(s) == [i \in 1..Len(s) |-> s[Len(s) + 1 - i]]

Max(a, b) == IF a >= b THEN a ELSE b
Min(a, b) == IF a <= b THEN a ELSE b

-----------------------------------------------------------------------------
(* Config                                                                  *)

\* FPS = "29.97", as the fraction float(FPS) = 2997/100
FPS == [num |-> 2997, den |-> 100]
WIDTH == "2160"
HEIGHT == "3840"
FPS_STR == "29.97"

TicksPerMs == 2997
TicksPerSecond == 1000 * TicksPerMs
\* 1.0 / fps, in ticks
FrameTicks(fps) == (TicksPerSecond * fps.den) \div fps.num

\* _mm(when, color, name, dur, notes); when and dur are written in milliseconds
mm(when, color, name, dur, notes) ==
  [t |-> when * TicksPerMs, color |-> color, name |-> name,
   dur |-> dur * TicksPerMs, notes |-> <<notes>>]

\* _mp(t, color, name, notes, dur=0.0)
mp(t, color, name, notes) == mm(t, color, name, 0, notes)

-----------------------------------------------------------------------------
(* Template catalog                                                        *)

TOP_BINS ==
  <<
    <<"0","0"," ","|"," ","U+1F3D7"," ","T","e","m","p","l","a","t","e","s">>,
    <<"0","1"," ","|"," ","U+1F4B0"," ","T","h","e"," ","M","o","n","e","y">>,
    <<"0","2"," ","|"," ","U+1F9EA"," ","T","h","e"," ","F","o","r","m","u","l","a">>,
    <<"9","9"," ","|"," ","U+1F4E6"," ","E","x","p","o","r","t","s">>
  >>

VIDEO_TRACKS_TOP_TO_BOTTOM ==
  <<
    "FX TEMP [U+1F9EA]",
    "SAFETY [U+1F6D1] [U+2014] Guides (Disable for export)",
    "TITLES [U+1F3F7][U+FE0F]",
    "GFX [U+2014] Shapes & Callouts [U+1F7E6]",
    "LIGHTS & TEXTURES [U+2728] [U+2014] Leaks/Flares/Dust",
    "ADJUSTMENT [U+1F7E9] [U+2014] Global Polish",
    "B-ROLL B [U+1F39E][U+FE0F]",
    "B-ROLL A [U+1F39E][U+FE0F]",
    "A-ROLL B [U+1F3A5]",
    "A-ROLL A [U+1F3A5]"
  >>

AUDIO_TRACKS ==
  <<
    "DX_A",
    "DX_B",
    "VO_A",
    "VO_B",
    "SFX_HARD",
    "WHOOSH_SWISH",
    "RISERS_REVERSE",
    "STINGERS_MUSFX",
    "MX_A",
    "MX_B",
    "FOLEY_HANDS",
    "FOLEY_CLOTH",
    "FOOTSTEPS",
    "UI_CLICKS",
    "AMB_A",
    "AMB_B",
    "PRINT"
  >>

SUPPORTED_MARKER_COLORS ==
  {"Red", "Yellow", "Green", "Cyan", "Blue", "Purple", "Pink", "Black", "White", "Orange"}

COLOR_FALLBACK ==
  "Magenta" :> "Pink"
  @@ "Orange" :> "Yellow"

MARKERS_12 ==
  <<
    mm(0, "Red", "HOOK", 3000, "Range 0[U+2013]3s. Open with the cl..."),
    mm(3000, "Orange", "DRAW", 5000, "Range 4[U+2013]6s. Add one new angl..."),
    mm(4500, "Magenta", "INTERRUPT #1", 0, "Micro pattern break ([U+2264]0.7s)...."),
    mm(8000, "Green", "COMMIT / PAYOFF", 4000, "Range 3[U+2013]5s. Deliver the prom..."),
    mm(9000, "Magenta", "INTERRUPT #2", 0, "Second micro jolt; invert fr..."),
    mm(11600, "Yellow", "LOOP / CTA", 400, "Range 0.3[U+2013]1.0s. Button that ...")
  >>

MARKERS_22 ==
  <<
    mm(0, "Red", "HOOK", 3000, "Range 0[U+2013]3s. Punchy premise s..."),
    mm(3000, "Orange", "DRAW", 5000, "Range 4[U+2013]6s. Add context or a..."),
    mm(6000, "Magenta", "INTERRUPT #1", 0, "Early micro jolt ([U+2264]0.7s). Ke..."),
    mm(8000, "Green", "COMMIT / PAYOFF #1", 4000, "Range 3[U+2013]5s. First clean deli..."),
    mm(12000, "Blue", "SECOND HOOK", 3000, "Range 2[U+2013]4s. Re-hook with a s..."),
    mm(13500, "Magenta", "INTERRUPT #2", 0, "Quick flip after second hook..."),
    mm(15000, "Purple", "DEVELOP", 7000, "Range 6[U+2013]8s. Stack 1[U+2013]2 suppor..."),
    mm(18500, "Magenta", "INTERRUPT #3", 0, "Penultimate jolt to prime th..."),
    mm(21300, "Yellow", "LOOP / CTA", 700, "Range 0.5[U+2013]1.2s. Clean loop o...")
  >>

MARKERS_30 ==
  <<
    mm(0, "Red", "HOOK", 3000, "Range 0[U+2013]3s. Plain-speak prom..."),
    mm(3000, "Orange", "DRAW", 5000, "Range 4[U+2013]6s. Elevate intrigue..."),
    mm(6000, "Magenta", "INTERRUPT #1", 0, "Micro reset to avoid 6[U+2013]10s s..."),
    mm(8000, "Green", "COMMIT / PAYOFF #1", 4000, "Range 3[U+2013]5s. Hard clarity mom..."),
    mm(12000, "Blue", "SECOND HOOK", 3000, "Range 2[U+2013]4s. Alternate entry ..."),
    mm(13500, "Magenta", "INTERRUPT #2", 0, "Quick subversion; keep rhyth..."),
    mm(15000, "Purple", "DEVELOP A", 7000, "Range 6[U+2013]8s. Expand with one ..."),
    mm(20000, "Magenta", "INTERRUPT #3", 0, "Reset cadence before last st..."),
    mm(22000, "Purple", "DEVELOP B", 6000, "Range 5[U+2013]7s. Second support; ..."),
    mm(26000, "Magenta", "INTERRUPT #4", 0, "Final micro jolt before clos..."),
    mm(28000, "Yellow", "FINAL PAYOFF / LOOP", 2000, "Range 1.5[U+2013]3.0s. Clean visual...")
  >>

LANE_MARKERS ==
  "money" :> (
      "12s" :> MARKERS_12
      @@ "22s" :> MARKERS_22
      @@ "30s" :> MARKERS_30)
  @@ "mv" :> (
      "12s" :> <<
        mm(0, "Red", "HOOK (Signature Visual)", 3000, "Range 0[U+2013]3s. Iconic pose/move..."),
        mm(3000, "Orange", "DRAW (Aesthetic Lift)", 5000, "Range 4[U+2013]6s. Add a quick look..."),
        mm(4500, "Magenta", "INTERRUPT #1", 0, "[U+2264]0.7s. Micro cut/whip/push t..."),
        mm(8000, "Green", "COMMIT / PAYOFF", 4000, "Range 3[U+2013]5s. Tight performanc..."),
        mm(9000, "Magenta", "INTERRUPT #2", 0, "Second micro flip to avoid s..."),
        mm(11600, "Yellow", "LOOP / CTA", 400, "Range 0.3[U+2013]1.0s. End on a rep...")
      >>
      @@ "22s" :> <<
        mm(0, "Red", "HOOK", 3000, "Range 0[U+2013]3s. Punchy premise s..."),
        mm(3000, "Orange", "DRAW", 5000, "Range 4[U+2013]6s. Add context or a..."),
        mm(6000, "Magenta", "INTERRUPT #1", 0, "Early micro jolt ([U+2264]0.7s). Ke..."),
        mm(8000, "Green", "COMMIT / PAYOFF #1", 4000, "Range 3[U+2013]5s. First clean deli..."),
        mm(12000, "Blue", "SECOND HOOK", 3000, "Range 2[U+2013]4s. Re-hook with a s..."),
        mm(13500, "Magenta", "INTERRUPT #2", 0, "Quick flip after second hook..."),
        mm(15000, "Purple", "DEVELOP", 7000, "Range 6[U+2013]8s. Stack 1[U+2013]2 suppor..."),
        mm(18500, "Magenta", "INTERRUPT #3", 0, "Penultimate jolt to prime th..."),
        mm(21300, "Yellow", "LOOP / CTA", 700, "Range 0.5[U+2013]1.2s. Clean loop o...")
      >>
      @@ "30s" :> <<
        mm(0, "Red", "HOOK", 3000, "Range 0[U+2013]3s. Plain-speak prom..."),
        mm(3000, "Orange", "DRAW", 5000, "Range 4[U+2013]6s. Elevate intrigue..."),
        mm(6000, "Magenta", "INTERRUPT #1", 0, "Micro reset to avoid 6[U+2013]10s s..."),
        mm(8000, "Green", "COMMIT / PAYOFF #1", 4000, "Range 3[U+2013]5s. Hard clarity mom..."),
        mm(12000, "Blue", "SECOND HOOK", 3000, "Range 2[U+2013]4s. Alternate entry ..."),
        mm(13500, "Magenta", "INTERRUPT #2", 0, "Quick subversion; keep rhyth..."),
        mm(15000, "Purple", "DEVELOP A", 7000, "Range 6[U+2013]8s. Expand with one ..."),
        mm(20000, "Magenta", "INTERRUPT #3", 0, "Reset cadence before last st..."),
        mm(22000, "Purple", "DEVELOP B", 6000, "Range 5[U+2013]7s. Second support; ..."),
        mm(26000, "Magenta", "INTERRUPT #4", 0, "Final micro jolt before clos..."),
        mm(28000, "Yellow", "FINAL PAYOFF / LOOP", 2000, "Range 1.5[U+2013]3.0s. Clean visual...")
      >>)
  @@ "fashion" :> (
      "12s" :> <<
        mm(0, "Red", "HOOK (Hero Fit Moment)", 3000, "Range 0[U+2013]3s. One striking sil..."),
        mm(3000, "Orange", "DRAW (Detail Contrast)", 5000, "Range 4[U+2013]6s. Switch to fabric..."),
        mm(6000, "Magenta", "INTERRUPT #1", 0, "[U+2264]0.7s. Quick angle/tempo fli..."),
        mm(8000, "Green", "COMMIT / PAYOFF", 4000, "Range 3[U+2013]5s. Full-body reveal..."),
        mm(11600, "Yellow", "LOOP / CTA", 400, "Range 0.3[U+2013]1.0s. Loopable ste...")
      >>
      @@ "22s" :> <<
        mm(0, "Red", "HOOK (Look Identity)", 3000, "Range 0[U+2013]3s. State the vibe: ..."),
        mm(3000, "Orange", "DRAW (Texture/Movement)", 5000, "Range 4[U+2013]6s. Fabric motion or..."),
        mm(6000, "Magenta", "INTERRUPT #1", 0, "[U+2264]0.7s. Angle/location micro ..."),
        mm(8000, "Green", "COMMIT / PAYOFF #1", 4000, "Range 3[U+2013]5s. Full outfit clar..."),
        mm(12000, "Blue", "SECOND HOOK (Alt Styling)", 3000, "Range 2[U+2013]4s. Secondary combo ..."),
        mm(15000, "Purple", "DEVELOP", 7000, "Range 6[U+2013]8s. 1[U+2013]2 beats: close..."),
        mm(21300, "Yellow", "LOOP / CTA", 700, "Range 0.5[U+2013]1.2s. Loopable wal...")
      >>
      @@ "30s" :> <<
        mm(0, "Red", "HOOK (Statement Frame)", 3000, "Range 0[U+2013]3s. Pose, lensing, o..."),
        mm(3000, "Orange", "DRAW (Cutaway Detail)", 5000, "Range 4[U+2013]6s. Textures, stitch..."),
        mm(6000, "Magenta", "INTERRUPT #1", 0, "Micro jolt."),
        mm(8000, "Green", "COMMIT / PAYOFF #1", 4000, "Range 3[U+2013]5s. Head-to-toe mome..."),
        mm(12000, "Blue", "SECOND HOOK", 3000, "Range 2[U+2013]4s. Alternate palett..."),
        mm(15000, "Purple", "DEVELOP A", 7000, "Range 6[U+2013]8s. Movement sequenc..."),
        mm(22000, "Purple", "DEVELOP B", 6000, "Range 5[U+2013]7s. Environment inte..."),
        mm(28000, "Yellow", "FINAL PAYOFF / LOOP", 2000, "Range 1.5[U+2013]3.0s. Seamless loo...")
      >>)
  @@ "talking" :> (
      "12s" :> <<
        mm(0, "Red", "HOOK (Plain-Speak Claim)", 3000, "Range 0[U+2013]3s. One-sentence pro..."),
        mm(3000, "Orange", "DRAW (Setup in One Line)", 5000, "Range 4[U+2013]6s. Short context th..."),
        mm(6000, "Magenta", "INTERRUPT #1", 0, "[U+2264]0.7s. Insert quick B-roll o..."),
        mm(8000, "Green", "COMMIT / PAYOFF", 4000, "Range 3[U+2013]5s. The clear takeaw..."),
        mm(11600, "Yellow", "LOOP / CTA", 400, "Range 0.3[U+2013]1.0s. Frictionless...")
      >>
      @@ "22s" :> <<
        mm(0, "Red", "HOOK (Outcome First)", 3000, "Range 0[U+2013]3s. Lead with result..."),
        mm(3000, "Orange", "DRAW (Short Context)", 5000, "Range 4[U+2013]6s. Add one surprise..."),
        mm(6000, "Magenta", "INTERRUPT #1", 0, "[U+2264]0.7s. Pattern break: quick ..."),
        mm(8000, "Green", "COMMIT / PAYOFF #1", 4000, "Range 3[U+2013]5s. First clear poin..."),
        mm(12000, "Blue", "SECOND HOOK", 3000, "Range 2[U+2013]4s. Re-articulate up..."),
        mm(15000, "Purple", "DEVELOP", 7000, "Range 6[U+2013]8s. One supporting e..."),
        mm(21300, "Yellow", "LOOP / CTA", 700, "Range 0.5[U+2013]1.2s. End crisp.")
      >>
      @@ "30s" :> <<
        mm(0, "Red", "HOOK (Punchy Thesis)", 3000, "Range 0[U+2013]3s. No hedging."),
        mm(3000, "Orange", "DRAW (Angle Boost)", 5000, "Range 4[U+2013]6s. Sharpen tension ..."),
        mm(6000, "Magenta", "INTERRUPT #1", 0, "Micro reset."),
        mm(8000, "Green", "COMMIT / PAYOFF #1", 4000, "Range 3[U+2013]5s. Clear, specific ..."),
        mm(12000, "Blue", "SECOND HOOK", 3000, "Range 2[U+2013]4s. New phrasing for..."),
        mm(15000, "Purple", "DEVELOP A", 7000, "Range 6[U+2013]8s. Example or tiny ..."),
        mm(22000, "Purple", "DEVELOP B", 6000, "Range 5[U+2013]7s. Short applicatio..."),
        mm(28000, "Yellow", "FINAL PAYOFF / LOOP", 2000, "Range 1.5[U+2013]3.0s. Tight loop o...")
      >>)
  @@ "dil" :> (
      "12s" :> <<
        mm(0, "Red", "HOOK (Moment in Progress)", 3000, "Range 0[U+2013]3s. Drop viewer into..."),
        mm(3000, "Orange", "DRAW (What's Next?)", 5000, "Range 4[U+2013]6s. Tease destinatio..."),
        mm(6000, "Magenta", "INTERRUPT #1", 0, "[U+2264]0.7s. Tempo flip."),
        mm(8000, "Green", "COMMIT / PAYOFF", 4000, "Range 3[U+2013]5s. Satisfying micro..."),
        mm(11600, "Yellow", "LOOP / CTA", 400, "Range 0.3[U+2013]1.0s. Loopable mot...")
      >>
      @@ "22s" :> <<
        mm(0, "Red", "HOOK (Drop-In)", 3000, "Range 0[U+2013]3s. Start mid-action..."),
        mm(3000, "Orange", "DRAW (Mini Arc)", 5000, "Range 4[U+2013]6s. Set tiny objecti..."),
        mm(6000, "Magenta", "INTERRUPT #1", 0, "[U+2264]0.7s. Micro reset."),
        mm(8000, "Green", "COMMIT / PAYOFF #1", 4000, "Range 3[U+2013]5s. Hit a checkpoint..."),
        mm(12000, "Blue", "SECOND HOOK", 3000, "Range 2[U+2013]4s. New micro-goal."),
        mm(15000, "Purple", "DEVELOP", 7000, "Range 6[U+2013]8s. Texture beats (a..."),
        mm(21300, "Yellow", "LOOP / CTA", 700, "Range 0.5[U+2013]1.2s. End in motio...")
      >>
      @@ "30s" :> <<
        mm(0, "Red", "HOOK (Live Snapshot)", 3000, "Range 0[U+2013]3s. Immediate immers..."),
        mm(3000, "Orange", "DRAW (Tension/Contrast)", 5000, "Range 4[U+2013]6s. Set a tiny tensi..."),
        mm(6000, "Magenta", "INTERRUPT #1", 0, "Quick changeup."),
        mm(8000, "Green", "COMMIT / PAYOFF #1", 4000, "Range 3[U+2013]5s. Satisfy the firs..."),
        mm(12000, "Blue", "SECOND HOOK", 3000, "Range 2[U+2013]4s. Lure late scroll..."),
        mm(15000, "Purple", "DEVELOP A", 7000, "Range 6[U+2013]8s. Environment & te..."),
        mm(22000, "Purple", "DEVELOP B", 6000, "Range 5[U+2013]7s. Human beat or de..."),
        mm(28000, "Yellow", "FINAL PAYOFF / LOOP", 2000, "Range 1.5[U+2013]3.0s. Loopable exi...")
      >>)
  @@ "cook" :> (
      "12s" :> <<
        mm(0, "Red", "HOOK (Signature Sound/Move)", 3000, "Range 0[U+2013]3s. Instantly show t..."),
        mm(3000, "Orange", "DRAW (Layer or Constraint)", 5000, "Range 4[U+2013]6s. Tease a layer yo..."),
        mm(6000, "Magenta", "INTERRUPT #1", 0, "[U+2264]0.7s. Micro switch to scree..."),
        mm(8000, "Green", "COMMIT / PAYOFF", 4000, "Range 3[U+2013]5s. Small but satisf..."),
        mm(11600, "Yellow", "LOOP / CTA", 400, "Range 0.3[U+2013]1.0s. Seamless loo...")
      >>
      @@ "22s" :> <<
        mm(0, "Red", "HOOK (Instant Identity)", 3000, "Range 0[U+2013]3s. The 'ohhh' sound..."),
        mm(3000, "Orange", "DRAW (What You'll Build)", 5000, "Range 4[U+2013]6s. Promise the flip..."),
        mm(6000, "Magenta", "INTERRUPT #1", 0, "[U+2264]0.7s. Angle/UI micro cut."),
        mm(8000, "Green", "COMMIT / PAYOFF #1", 4000, "Range 3[U+2013]5s. First groove loc..."),
        mm(12000, "Blue", "SECOND HOOK", 3000, "Range 2[U+2013]4s. Catchier motif/t..."),
        mm(15000, "Purple", "DEVELOP", 7000, "Range 6[U+2013]8s. Add/remove tensi..."),
        mm(21300, "Yellow", "LOOP / CTA", 700, "Range 0.5[U+2013]1.2s. Clean loop.")
      >>
      @@ "30s" :> <<
        mm(0, "Red", "HOOK (Immediate Sauce)", 3000, "Range 0[U+2013]3s. Start at the mos..."),
        mm(3000, "Orange", "DRAW (Set the Game)", 5000, "Range 4[U+2013]6s. 'Here's the flip..."),
        mm(6000, "Magenta", "INTERRUPT #1", 0, "Micro cut/angle."),
        mm(8000, "Green", "COMMIT / PAYOFF #1", 4000, "Range 3[U+2013]5s. First lock momen..."),
        mm(12000, "Blue", "SECOND HOOK", 3000, "Range 2[U+2013]4s. Stronger motif."),
        mm(15000, "Purple", "DEVELOP A", 7000, "Range 6[U+2013]8s. Arrange mini-arc..."),
        mm(22000, "Purple", "DEVELOP B", 6000, "Range 5[U+2013]7s. Short performanc..."),
        mm(28000, "Yellow", "FINAL PAYOFF / LOOP", 2000, "Range 1.5[U+2013]3.0s. Loop land.")
      >>)

SHOTFX_SPECIFIC ==
  "clone" :> <<
      mp(0, "Orange", "Prep / Plates", "Lock-off or perfectly repeat..."),
      mp(1000, "Blue", "Mask strategy", "Plan overlap: decide who pas..."),
      mp(2000, "Green", "Parallax sanity", "If handheld, stabilize BOTH ..."),
      mp(3000, "Pink", "Seam check (Difference)", "Use a Difference/Blend previ..."),
      mp(4000, "Cyan", "Shadows / occlusion", "Ensure correct layer order w..."),
      mp(5000, "Yellow", "Grain / blur match", "Match grain and motion blur ..."),
      mp(6000, "Purple", "Continuity glance", "Watch hands/feet for pops at..."),
      mp(299000, "Blue", "[U+23F1] 5min anchor", "")
    >>
  @@ "clean_plate" :> <<
      mp(0, "Orange", "Choose source", "Prefer adjacent frames over ..."),
      mp(1000, "Blue", "Track first", "Corner/planar or point track..."),
      mp(2000, "Green", "Patch blend", "Use soft, irregular masks; b..."),
      mp(3000, "Pink", "Skin texture", "Do not blur: borrow texture ..."),
      mp(4000, "Cyan", "Temporal sanity", "If the head moves, use a sho..."),
      mp(5000, "Yellow", "Color/Specular", "Match micro highlights; redu..."),
      mp(299000, "Blue", "[U+23F1] 5min anchor", "")
    >>
  @@ "background_cleanup" :> <<
      mp(0, "Orange", "Analyze plane", "Is it flat (planar track) or..."),
      mp(1000, "Blue", "Perspective insert", "Corner-pin a clean patch in ..."),
      mp(2000, "Green", "Edge contamination", "Avoid straight mask edges ac..."),
      mp(3000, "Pink", "Lighting continuity", "Replicate falloff & vignette..."),
      mp(4000, "Yellow", "Grain / noise", "Sample target area's noise l..."),
      mp(299000, "Blue", "[U+23F1] 5min anchor", "")
    >>
  @@ "remove_mic_cable" :> <<
      mp(0, "Orange", "Prep", "Stabilize the hand region (t..."),
      mp(1000, "Blue", "Roto contour", "Follow knuckle silhouettes; ..."),
      mp(2000, "Green", "Clone/patch passes", "Borrow from nearby skin fram..."),
      mp(3000, "Pink", "Specular continuity", "Rebuild highlight streaks ac..."),
      mp(4000, "Cyan", "Motion blur", "Match shutter blur on fast f..."),
      mp(5000, "Yellow", "Final grain", "Add matched grain over the c..."),
      mp(299000, "Blue", "[U+23F1] 5min anchor", "")
    >>
  @@ "hand_split" :> <<
      mp(0, "Orange", "Plates & timing", "Record two performance passe..."),
      mp(1000, "Blue", "Registration", "Lock camera; if not, stabili..."),
      mp(2000, "Green", "Mask logic", "Choose overlap line along ha..."),
      mp(3000, "Pink", "Pad feedback", "Duplicate LED/hit feedback u..."),
      mp(4000, "Cyan", "Audio truth", "If printing live audio, comp..."),
      mp(5000, "Yellow", "Micro parallax", "If hands drift apart, micro-..."),
      mp(299000, "Blue", "[U+23F1] 5min anchor", "")
    >>
  @@ "screen_insert" :> <<
      mp(0, "Orange", "Track", "Planar track the screen surf..."),
      mp(1000, "Blue", "Corner pin", "Apply corner pin; precomp UI..."),
      mp(2000, "Green", "Display look", "Gamma lift + slight saturati..."),
      mp(3000, "Pink", "Motion blur & flicker", "Match shutter blur; optional..."),
      mp(4000, "Cyan", "Moire / aliasing", "Add tiny grain and 0.2[U+2013]0.4 p..."),
      mp(5000, "Yellow", "Light spill", "Add light wrap onto bezels/f..."),
      mp(299000, "Blue", "[U+23F1] 5min anchor", "")
    >>

SELECTS_BASE ==
  <<
    mp(0, "Purple", "SELECTS [U+2014] Workflow", "Pass 1: reject hard misses. ..."),
    mp(1000, "Orange", "Labeling & notes", "Use [U+2B50]/color or keywords in N..."),
    mp(2000, "Blue", "Cut points", "Prefer cuts on motion/syllab..."),
    mp(3000, "Green", "Sync sanity", "Mark claps/peaks; verify fra..."),
    mp(4000, "Yellow", "Stringout pointers", "Range-mark best beats; leave..."),
    mp(299000, "Blue", "[U+23F1] 5min anchor", "")
  >>

SELECTS_SPECIFIC ==
  "mv_perf" :> <<
      mp(5000, "Red", "Lyric map", "Note bar:line references in ..."),
      mp(6000, "Blue", "Angle variety", "Favor angle changes on rhyme..."),
      mp(7000, "Pink", "Micro-ramps", "Tag rampable hits (impact/wo...")
    >>
  @@ "broll" :> <<
      mp(5000, "Orange", "Texture diversity", "Collect movement textures (h..."),
      mp(6000, "Cyan", "Parallax / depth", "Prefer foreground passes & r..."),
      mp(7000, "Green", "Cutaway purpose", "Each B-roll pick should illu...")
    >>
  @@ "fashion_look" :> <<
      mp(5000, "Red", "Silhouette first", "Pick one clean full-body rea..."),
      mp(6000, "Blue", "Motion beauty", "Walk/turn/hair moments with ..."),
      mp(7000, "Yellow", "Color/texture continuity", "Note lighting shifts; tag ca...")
    >>
  @@ "th_aroll" :> <<
      mp(5000, "Red", "Message spine", "Select crisp claims and proo..."),
      mp(6000, "Blue", "Cut on gesture", "Hide jump cuts under head/ha..."),
      mp(7000, "Green", "Caption sync", "Keep phrase boundaries clean...")
    >>
  @@ "th_broll" :> <<
      mp(5000, "Orange", "Illustrative matches", "Pick visuals that literally ..."),
      mp(6000, "Cyan", "Readability", "Avoid busy frames behind cap...")
    >>
  @@ "dil_generic" :> <<
      mp(5000, "Red", "Micro-scenes", "Collect clear begin[U+2192]middle[U+2192]e..."),
      mp(6000, "Blue", "Entrances/Exits", "Favor shots with natural in/...")
    >>
  @@ "dil_commute" :> <<
      mp(5000, "Orange", "Travel rhythm", "Wheels/doors/steps ambience;..."),
      mp(6000, "Green", "Landmarks", "Tag 1[U+2013]2 location wides for c...")
    >>
  @@ "dil_coffee" :> <<
      mp(5000, "Pink", "Hands & steam", "Close-ups of pour/steam; use..."),
      mp(6000, "Yellow", "Loop beats", "Pick a looping action (stir,...")
    >>
  @@ "cook_overhead" :> <<
      mp(5000, "Red", "Clean hits", "Choose takes with clear pad ..."),
      mp(6000, "Blue", "UI context", "Grab short UI pans for key/p...")
    >>
  @@ "cook_front" :> <<
      mp(5000, "Orange", "Energy & eye line", "Prefer takes with micro-groo..."),
      mp(6000, "Green", "Reveal moments", "Pick sequences that set up/p...")
    >>
  @@ "cook_foley" :> <<
      mp(5000, "Cyan", "Transient truth", "Select crisp knob turns/clic..."),
      mp(6000, "Yellow", "Variety", "Gather a library: short/long...")
    >>
  @@ "stringout_generic" :> <<
      mp(5000, "Red", "Order", "Hook [U+2192] context [U+2192] develop [U+2192] p..."),
      mp(6000, "Blue", "Air for pacing", "Leave tiny gaps between idea..."),
      mp(7000, "Green", "Markers to beats", "Range-mark final beats to gu...")
    >>

PRINCIPLE_PACKS ==
  "scenes_segments" :> <<
      mp(0, "Purple", "PRINCIPLES [U+2014] Scenes/Segments", "[U+2022] First-frame clarity (<2s):..."),
      mp(1000, "Pink", "Micro-jolt cadence", "Insert a quick change every ..."),
      mp(2000, "Yellow", "Loop seam awareness", "Plan an end frame that re-en..."),
      mp(299000, "Blue", "[U+23F1] 5min anchor", "Timeline duration marker (au...")
    >>
  @@ "shotfx" :> <<
      mp(0, "Purple", "PRINCIPLES [U+2014] ShotFX", "[U+2022] Composite first, grade aft..."),
      mp(1000, "Blue", "Mask edge awareness", "Mind edges during fast motio..."),
      mp(2000, "Pink", "Look exploration", "Try one alternate 'beauty vs..."),
      mp(299000, "Blue", "[U+23F1] 5min anchor", "Timeline duration marker (au...")
    >>
  @@ "talking_head" :> <<
      mp(0, "Purple", "PRINCIPLES [U+2014] Talking Head", "[U+2022] Lead with the point (don't..."),
      mp(1000, "Blue", "B-roll window", "Consider an overlay here to ..."),
      mp(2000, "Yellow", "Pacing & captions", "Keep line breaks on phrase b..."),
      mp(299000, "Blue", "[U+23F1] 5min anchor", "Timeline duration marker (au...")
    >>
  @@ "fashion" :> <<
      mp(0, "Purple", "PRINCIPLES [U+2014] Fashion", "[U+2022] Silhouette first (clean re..."),
      mp(1000, "Pink", "Motion beauty", "Feature a fluid move here (t..."),
      mp(2000, "Green", "Thumbnail candidates", "Flag strong stills for cover..."),
      mp(299000, "Blue", "[U+23F1] 5min anchor", "Timeline duration marker (au...")
    >>
  @@ "day_in_the_life" :> <<
      mp(0, "Purple", "PRINCIPLES [U+2014] Day in the Life", "[U+2022] Intent fast: what's happen..."),
      mp(1000, "Blue", "Atmos pass", "Insert textures/hands/ambien..."),
      mp(2000, "Yellow", "Transition moment", "Natural hop to the next micr..."),
      mp(3000, "Green", "Cycle closure", "Leave a resolved beat that c..."),
      mp(299000, "Blue", "[U+23F1] 5min anchor", "Timeline duration marker (au...")
    >>
  @@ "cook_ups" :> <<
      mp(0, "Purple", "PRINCIPLES [U+2014] Cook-Ups", "[U+2022] Introduce motif quickly; s..."),
      mp(1000, "Yellow", "Arrangement choice", "Commit to a direction; avoid..."),
      mp(2000, "Blue", "UI / sound insert", "Highlight a plugin/knob/wave..."),
      mp(3000, "Pink", "Vibe spike", "Create a small peak (camera ..."),
      mp(299000, "Blue", "[U+23F1] 5min anchor", "Timeline duration marker (au...")
    >>

PACING_S ==
  "money" :> (
      "12s" :> (
          "HOOK" :> "Cut every ~0.8[U+2013]1.2s; micro-jolt [U+2264]0.7s ok."
          @@ "DRAW" :> "Quicker trims ~0.6[U+2013]0.9s; 1 brisk insert per beat of idea."
          @@ "COMMIT / PAYOFF" :> "Let proof breathe 1.2[U+2013]1.8s; single cut-ins [U+2264]0.5s."
          @@ "LOOP / CTA" :> "Button [U+2264]0.7s; avoid extra frames after action lands.")
      @@ "22s" :> (
          "HOOK" :> "0.9[U+2013]1.3s cadence."
          @@ "DRAW" :> "0.7[U+2013]1.0s cadence; allow 1 contrast cut [U+2264]0.5s."
          @@ "INTERRUPT #1" :> "[U+2264]0.6s burst."
          @@ "COMMIT / PAYOFF #1" :> "1.4[U+2013]2.0s; 1[U+2013]2 inserts [U+2264]0.5s."
          @@ "SECOND HOOK" :> "0.8[U+2013]1.1s, punchier than first hook."
          @@ "DEVELOP" :> "1.0[U+2013]1.4s trims; chain 2 beats max."
          @@ "LOOP / CTA" :> "0.6[U+2013]0.9s clean loop frame.")
      @@ "30s" :> (
          "HOOK" :> "1.0[U+2013]1.4s cadence."
          @@ "DRAW" :> "0.9[U+2013]1.2s; maintain forward pressure."
          @@ "COMMIT / PAYOFF #1" :> "1.5[U+2013]2.2s; inserts [U+2264]0.6s."
          @@ "SECOND HOOK" :> "0.9[U+2013]1.2s; keep phrasing fresh."
          @@ "DEVELOP A" :> "1.1[U+2013]1.6s trims; avoid meander."
          @@ "DEVELOP B" :> "1.1[U+2013]1.6s trims; escalate or contrast."
          @@ "FINAL PAYOFF / LOOP" :> "0.9[U+2013]1.3s; land on loopable motion."))
  @@ "mv" :> (
      "12s" :> (
          "HOOK (Signature Visual)" :> "0.7[U+2013]1.0s; snap on motion apex."
          @@ "DRAW (Aesthetic Lift)" :> "0.6[U+2013]0.9s; switch angle/location quickly."
          @@ "COMMIT / PAYOFF" :> "1.2[U+2013]1.6s on best performance bar; cut-ins [U+2264]0.5s."
          @@ "LOOP / CTA" :> "[U+2264]0.7s with repeatable motion.")
      @@ "22s" :> (
          "HOOK" :> "0.9[U+2013]1.2s; hit downbeat moves."
          @@ "DRAW" :> "0.7[U+2013]1.0s; texture/move alternation."
          @@ "COMMIT / PAYOFF #1" :> "1.4[U+2013]1.9s; preserve groove."
          @@ "SECOND HOOK" :> "0.8[U+2013]1.1s; fresh pose/transition."
          @@ "DEVELOP" :> "1.0[U+2013]1.4s; 2-beat mini-sequence."
          @@ "LOOP / CTA" :> "0.6[U+2013]0.9s.")
      @@ "30s" :> (
          "HOOK" :> "1.0[U+2013]1.3s; signature move early."
          @@ "DRAW" :> "0.9[U+2013]1.2s; keep energy rising."
          @@ "COMMIT / PAYOFF #1" :> "1.5[U+2013]2.1s; show payoff clean."
          @@ "SECOND HOOK" :> "0.9[U+2013]1.2s."
          @@ "DEVELOP A" :> "1.1[U+2013]1.5s per move sequence."
          @@ "DEVELOP B" :> "1.1[U+2013]1.5s, environment interplay."
          @@ "FINAL PAYOFF / LOOP" :> "0.9[U+2013]1.2s loop close."))
  @@ "fashion" :> (
      "12s" :> (
          "HOOK (Hero Fit Moment)" :> "0.7[U+2013]1.0s; silhouette read first."
          @@ "DRAW (Detail Contrast)" :> "0.6[U+2013]0.9s; alternate texture/motion."
          @@ "COMMIT / PAYOFF" :> "1.2[U+2013]1.6s full-body; detail cut-ins [U+2264]0.5s."
          @@ "LOOP / CTA" :> "[U+2264]0.7s on a repeatable turn/step.")
      @@ "22s" :> (
          "HOOK (Look Identity)" :> "0.8[U+2013]1.1s."
          @@ "DRAW (Texture/Movement)" :> "0.7[U+2013]1.0s; emphasize fabric motion."
          @@ "COMMIT / PAYOFF #1" :> "1.3[U+2013]1.8s head-to-toe."
          @@ "SECOND HOOK (Alt Styling)" :> "0.8[U+2013]1.1s; new layer/prop."
          @@ "DEVELOP" :> "1.0[U+2013]1.4s; 2 detail beats max."
          @@ "LOOP / CTA" :> "0.6[U+2013]0.9s.")
      @@ "30s" :> (
          "HOOK (Statement Frame)" :> "1.0[U+2013]1.3s."
          @@ "DRAW (Cutaway Detail)" :> "0.9[U+2013]1.2s; stitching/hardware."
          @@ "COMMIT / PAYOFF #1" :> "1.5[U+2013]2.1s."
          @@ "SECOND HOOK" :> "0.9[U+2013]1.2s."
          @@ "DEVELOP A" :> "1.1[U+2013]1.5s per move."
          @@ "DEVELOP B" :> "1.1[U+2013]1.5s; environment read."
          @@ "FINAL PAYOFF / LOOP" :> "0.9[U+2013]1.2s."))
  @@ "talking" :> (
      "12s" :> (
          "HOOK (Plain-Speak Claim)" :> "0.8[U+2013]1.1s; cut on phrase ends."
          @@ "DRAW (Setup in One Line)" :> "0.7[U+2013]1.0s; keep fillers trimmed."
          @@ "COMMIT / PAYOFF" :> "1.2[U+2013]1.7s; overlay receipts [U+2264]0.5s."
          @@ "LOOP / CTA" :> "[U+2264]0.7s; clean end breath.")
      @@ "22s" :> (
          "HOOK (Outcome First)" :> "0.9[U+2013]1.2s."
          @@ "DRAW (Short Context)" :> "0.8[U+2013]1.1s; one surprise fact."
          @@ "COMMIT / PAYOFF #1" :> "1.4[U+2013]2.0s."
          @@ "SECOND HOOK" :> "0.8[U+2013]1.1s; new phrasing."
          @@ "DEVELOP" :> "1.0[U+2013]1.4s; single example."
          @@ "LOOP / CTA" :> "0.6[U+2013]0.9s.")
      @@ "30s" :> (
          "HOOK (Punchy Thesis)" :> "1.0[U+2013]1.3s."
          @@ "DRAW (Angle Boost)" :> "0.9[U+2013]1.2s."
          @@ "COMMIT / PAYOFF #1" :> "1.5[U+2013]2.1s."
          @@ "SECOND HOOK" :> "0.9[U+2013]1.2s."
          @@ "DEVELOP A" :> "1.1[U+2013]1.5s."
          @@ "DEVELOP B" :> "1.1[U+2013]1.5s."
          @@ "FINAL PAYOFF / LOOP" :> "0.9[U+2013]1.2s."))
  @@ "dil" :> (
      "12s" :> (
          "HOOK (Moment in Progress)" :> "0.7[U+2013]1.0s; cut on action changes."
          @@ "DRAW (What's Next?)" :> "0.7[U+2013]1.0s; tease movement."
          @@ "COMMIT / PAYOFF" :> "1.2[U+2013]1.6s micro-resolution."
          @@ "LOOP / CTA" :> "[U+2264]0.7s.")
      @@ "22s" :> (
          "HOOK (Drop-In)" :> "0.9[U+2013]1.2s."
          @@ "DRAW (Mini Arc)" :> "0.8[U+2013]1.1s."
          @@ "COMMIT / PAYOFF #1" :> "1.4[U+2013]1.9s."
          @@ "SECOND HOOK" :> "0.8[U+2013]1.1s."
          @@ "DEVELOP" :> "1.0[U+2013]1.4s."
          @@ "LOOP / CTA" :> "0.6[U+2013]0.9s.")
      @@ "30s" :> (
          "HOOK (Live Snapshot)" :> "1.0[U+2013]1.3s."
          @@ "DRAW (Tension/Contrast)" :> "0.9[U+2013]1.2s."
          @@ "COMMIT / PAYOFF #1" :> "1.5[U+2013]2.0s."
          @@ "SECOND HOOK" :> "0.9[U+2013]1.2s."
          @@ "DEVELOP A" :> "1.1[U+2013]1.5s."
          @@ "DEVELOP B" :> "1.1[U+2013]1.5s."
          @@ "FINAL PAYOFF / LOOP" :> "0.9[U+2013]1.2s."))
  @@ "cook" :> (
      "12s" :> (
          "HOOK (Signature Sound/Move)" :> "0.7[U+2013]1.0s; cut on transients."
          @@ "DRAW (Layer or Constraint)" :> "0.6[U+2013]0.9s; UI/hands ~0.5s."
          @@ "COMMIT / PAYOFF" :> "1.2[U+2013]1.6s groove lock."
          @@ "LOOP / CTA" :> "[U+2264]0.7s.")
      @@ "22s" :> (
          "HOOK (Instant Identity)" :> "0.9[U+2013]1.1s."
          @@ "DRAW (What You'll Build)" :> "0.7[U+2013]1.0s; context fast."
          @@ "COMMIT / PAYOFF #1" :> "1.4[U+2013]1.9s."
          @@ "SECOND HOOK" :> "0.8[U+2013]1.1s."
          @@ "DEVELOP" :> "1.0[U+2013]1.4s; short fills [U+2264]0.5s."
          @@ "LOOP / CTA" :> "0.6[U+2013]0.9s.")
      @@ "30s" :> (
          "HOOK (Immediate Sauce)" :> "1.0[U+2013]1.2s."
          @@ "DRAW (Set the Game)" :> "0.9[U+2013]1.2s."
          @@ "COMMIT / PAYOFF #1" :> "1.5[U+2013]2.0s."
          @@ "SECOND HOOK" :> "0.9[U+2013]1.2s."
          @@ "DEVELOP A" :> "1.1[U+2013]1.5s."
          @@ "DEVELOP B" :> "1.1[U+2013]1.5s."
          @@ "FINAL PAYOFF / LOOP" :> "0.9[U+2013]1.2s."))

PILLARS ==
  <<
    [name |-> <<"U+1F3B5"," ","M","u","s","i","c","-","V","i","d","e","o"," ","S","n","i","p","p","e","t","s">>,
     subbins |-> <<
       [name |-> <<"1","0"," ","|"," ","M","a","s","t","e","r"," ","B","u","i","l","d">>,
        timelines |-> <<
          <<"M","V"," ","M","a","s","t","e","r"," ","U+2014"," ","U+23F1"," ","2","9",".","9","7","p"," ","U+2022"," ","U+1F4D0"," ","2","1","6","0","U+00D7","3","8","4","0">>>>],
       [name |-> <<"2","0"," ","|"," ","S","c","e","n","e","s"," ","&"," ","S","e","g","m","e","n","t","s">>,
        timelines |-> <<
          <<"S","e","g","m","e","n","t"," ","U+2014"," ","H","o","o","k"," ","P","e","r","f","o","r","m","a","n","c","e">>,
          <<"S","e","g","m","e","n","t"," ","U+2014"," ","V","e","r","s","e"," ","P","e","r","f","o","r","m","a","n","c","e">>,
          <<"S","e","g","m","e","n","t"," ","U+2014"," ","B","-","R","o","l","l"," ","M","o","n","t","a","g","e">>,
          <<"S","e","g","m","e","n","t"," ","U+2014"," ","I","n","t","r","o","/","O","u","t","r","o">>>>],
       [name |-> <<"3","0"," ","|"," ","S","h","o","t"," ","F","X"," ","&"," ","C","l","o","n","e","s">>,
        timelines |-> <<
          <<"S","h","o","t","F","X"," ","U+2014"," ","C","l","o","n","e"," ","i","n"," ","H","a","l","l","w","a","y"," ","(","f","e","a","t","h","e","r"," ","6","U+2013","1","0","p","x",")">>,
          <<"S","h","o","t","F","X"," ","U+2014"," ","C","l","e","a","n"," ","P","l","a","t","e"," ","P","a","t","c","h">>>>],
       [name |-> <<"4","0"," ","|"," ","S","e","l","e","c","t","s"," ","&"," ","S","t","r","i","n","g","o","u","t","s">>,
        timelines |-> <<
          <<"P","E","R","F"," ","S","e","l","e","c","t","s"," ","U+2014"," ","B","e","s","t"," ","L","i","n","e","s">>,
          <<"B","-","R","o","l","l"," ","S","e","l","e","c","t","s"," ","U+2014"," ","S","t","u","d","i","o">>>>],
       [name |-> <<"5","0"," ","|"," ","S","y","n","c"," ","&"," ","M","u","l","t","i","c","a","m">>,
        timelines |-> <<
          <<"S","Y","N","C"," ","M","A","P"," ","U+2014"," ","P","e","r","f","o","r","m","a","n","c","e">>>>]
     >>],
    [name |-> <<"U+1F457"," ","O","O","T","D"," ","U+2022"," ","F","a","s","h","i","o","n">>,
     subbins |-> <<
       [name |-> <<"1","0"," ","|"," ","M","a","s","t","e","r"," ","B","u","i","l","d">>,
        timelines |-> <<
          <<"F","a","s","h","i","o","n"," ","M","a","s","t","e","r"," ","U+2014"," ","U+23F1"," ","2","9",".","9","7","p"," ","U+2022"," ","U+1F4D0"," ","2","1","6","0","U+00D7","3","8","4","0">>>>],
       [name |-> <<"2","0"," ","|"," ","S","c","e","n","e","s"," ","&"," ","S","e","g","m","e","n","t","s">>,
        timelines |-> <<
          <<"L","O","O","K"," ","U+2014"," ","(","G","e","n","e","r","i","c",")">>,
          <<"L","O","O","K"," ","U+2014"," ","R","o","o","f","t","o","p"," ","G","o","l","d","e","n"," ","H","o","u","r">>,
          <<"L","O","O","K"," ","U+2014"," ","S","t","u","d","i","o"," ","M","i","r","r","o","r">>>>],
       [name |-> <<"3","0"," ","|"," ","S","h","o","t"," ","F","X"," ","&"," ","C","l","o","n","e","s">>,
        timelines |-> <<
          <<"S","h","o","t","F","X"," ","U+2014"," ","C","l","e","a","n"," ","P","l","a","t","e"," ","P","a","t","c","h"," ","(","s","k","i","n","/","h","a","i","r",")">>>>],
       [name |-> <<"4","0"," ","|"," ","S","e","l","e","c","t","s"," ","&"," ","S","t","r","i","n","g","o","u","t","s">>,
        timelines |-> <<
          <<"L","O","O","K"," ","S","e","l","e","c","t","s"," ","U+2014"," ","(","G","e","n","e","r","i","c",")">>,
          <<"L","O","O","K"," ","S","e","l","e","c","t","s"," ","U+2014"," ","R","o","o","f","t","o","p">>,
          <<"L","O","O","K"," ","S","e","l","e","c","t","s"," ","U+2014"," ","S","t","u","d","i","o">>>>],
       [name |-> <<"5","0"," ","|"," ","S","y","n","c"," ","&"," ","M","u","l","t","i","c","a","m">>,
        timelines |-> <<>>]
     >>],
    [name |-> <<"U+1F399","U+FE0F"," ","T","a","l","k","i","n","g"," ","H","e","a","d">>,
     subbins |-> <<
       [name |-> <<"1","0"," ","|"," ","M","a","s","t","e","r"," ","B","u","i","l","d">>,
        timelines |-> <<
          <<"T","H"," ","M","a","s","t","e","r"," ","U+2014"," ","U+23F1"," ","2","9",".","9","7","p"," ","U+2022"," ","U+1F4D0"," ","2","1","6","0","U+00D7","3","8","4","0">>>>],
       [name |-> <<"2","0"," ","|"," ","S","c","e","n","e","s"," ","&"," ","S","e","g","m","e","n","t","s">>,
        timelines |-> <<
          <<"I","n","t","e","r","v","i","e","w"," ","U+2014"," ","R","a","d","i","o"," ","C","u","t"," ","+"," ","B","-","R","o","l","l">>>>],
       [name |-> <<"3","0"," ","|"," ","S","h","o","t"," ","F","X"," ","&"," ","C","l","o","n","e","s">>,
        timelines |-> <<
          <<"S","h","o","t","F","X"," ","U+2014"," ","B","a","c","k","g","r","o","u","n","d"," ","C","l","e","a","n","u","p">>>>],
       [name |-> <<"4","0"," ","|"," ","S","e","l","e","c","t","s"," ","&"," ","S","t","r","i","n","g","o","u","t","s">>,
        timelines |-> <<
          <<"A","-","R","o","l","l"," ","S","e","l","e","c","t","s"," ","U+2014"," ","(","G","e","n","e","r","i","c",")">>,
          <<"B","-","R","o","l","l"," ","S","e","l","e","c","t","s"," ","U+2014"," ","(","G","e","n","e","r","i","c",")">>,
          <<"B","-","R","o","l","l"," ","S","e","l","e","c","t","s"," ","U+2014"," ","S","t","u","d","i","o">>>>],
       [name |-> <<"5","0"," ","|"," ","S","y","n","c"," ","&"," ","M","u","l","t","i","c","a","m">>,
        timelines |-> <<>>]
     >>],
    [name |-> <<"U+2615","U+FE0F"," ","D","a","y"," ","i","n"," ","t","h","e"," ","L","i","f","e">>,
     subbins |-> <<
       [name |-> <<"1","0"," ","|"," ","M","a","s","t","e","r"," ","B","u","i","l","d">>,
        timelines |-> <<
          <<"D","I","L"," ","M","a","s","t","e","r"," ","U+2014"," ","U+23F1"," ","2","9",".","9","7","p"," ","U+2022"," ","U+1F4D0"," ","2","1","6","0","U+00D7","3","8","4","0">>>>],
       [name |-> <<"2","0"," ","|"," ","S","c","e","n","e","s"," ","&"," ","S","e","g","m","e","n","t","s">>,
        timelines |-> <<
          <<"C","h","a","p","t","e","r"," ","U+2014"," ","(","G","e","n","e","r","i","c",")">>,
          <<"C","h","a","p","t","e","r"," ","U+2014"," ","C","o","f","f","e","e"," ","R","u","n">>,
          <<"C","h","a","p","t","e","r"," ","U+2014"," ","S","t","u","d","i","o"," ","S","e","s","s","i","o","n">>>>],
       [name |-> <<"3","0"," ","|"," ","S","h","o","t"," ","F","X"," ","&"," ","C","l","o","n","e","s">>,
        timelines |-> <<
          <<"S","h","o","t","F","X"," ","U+2014"," ","H","a","n","d"," ","R","e","m","o","v","e"," ","M","i","c"," ","C","a","b","l","e">>>>],
       [name |-> <<"4","0"," ","|"," ","S","e","l","e","c","t","s"," ","&"," ","S","t","r","i","n","g","o","u","t","s">>,
        timelines |-> <<
          <<"S","e","l","e","c","t","s"," ","U+2014"," ","(","G","e","n","e","r","i","c",")">>,
          <<"S","e","l","e","c","t","s"," ","U+2014"," ","C","o","m","m","u","t","e">>,
          <<"S","e","l","e","c","t","s"," ","U+2014"," ","C","o","f","f","e","e"," ","S","h","o","p">>>>],
       [name |-> <<"5","0"," ","|"," ","S","y","n","c"," ","&"," ","M","u","l","t","i","c","a","m">>,
        timelines |-> <<>>]
     >>],
    [name |-> <<"U+1F3B9"," ","C","o","o","k","-","U","p","s">>,
     subbins |-> <<
       [name |-> <<"1","0"," ","|"," ","M","a","s","t","e","r"," ","B","u","i","l","d">>,
        timelines |-> <<
          <<"C","o","o","k","-","U","p"," ","M","a","s","t","e","r"," ","U+2014"," ","U+23F1"," ","2","9",".","9","7","p"," ","U+2022"," ","U+1F4D0"," ","2","1","6","0","U+00D7","3","8","4","0">>>>],
       [name |-> <<"2","0"," ","|"," ","S","c","e","n","e","s"," ","&"," ","S","e","g","m","e","n","t","s">>,
        timelines |-> <<
          <<"S","e","c","t","i","o","n"," ","U+2014"," ","(","G","e","n","e","r","i","c",")">>,
          <<"S","e","c","t","i","o","n"," ","U+2014"," ","T","e","a","s","e","r"," ","/"," ","H","o","o","k"," ","P","r","e","v","i","e","w">>,
          <<"S","e","c","t","i","o","n"," ","U+2014"," ","S","e","t","u","p"," ","(","K","e","y"," ","U+2022"," ","T","e","m","p","o"," ","U+2022"," ","S","e","s","s","i","o","n",")">>,
          <<"S","e","c","t","i","o","n"," ","U+2014"," ","D","r","u","m","s"," ","B","u","i","l","d">>,
          <<"S","e","c","t","i","o","n"," ","U+2014"," ","B","a","s","s"," ","D","r","o","p">>,
          <<"S","e","c","t","i","o","n"," ","U+2014"," ","M","e","l","o","d","y"," ","L","a","y","e","r","i","n","g">>,
          <<"S","e","c","t","i","o","n"," ","U+2014"," ","A","r","r","a","n","g","e","m","e","n","t"," ","F","l","i","p">>,
          <<"S","e","c","t","i","o","n"," ","U+2014"," ","P","e","r","f","o","r","m","a","n","c","e"," ","T","a","k","e">>,
          <<"S","e","c","t","i","o","n"," ","U+2014"," ","M","i","x"," ","T","o","u","c","h","e","s"," ","/"," ","P","r","i","n","t">>>>],
       [name |-> <<"3","0"," ","|"," ","S","h","o","t"," ","F","X"," ","&"," ","C","l","o","n","e","s">>,
        timelines |-> <<
          <<"S","h","o","t","F","X"," ","U+2014"," ","H","a","n","d"," ","S","p","l","i","t"," ","a","t"," ","S","a","m","p","l","e","r">>,
          <<"S","h","o","t","F","X"," ","U+2014"," ","S","c","r","e","e","n"," ","I","n","s","e","r","t"," ","(","U","I",")">>>>],
       [name |-> <<"4","0"," ","|"," ","S","e","l","e","c","t","s"," ","&"," ","S","t","r","i","n","g","o","u","t","s">>,
        timelines |-> <<
          <<"O","v","e","r","h","e","a","d"," ","S","e","l","e","c","t","s"," ","U+2014"," ","K","e","y","s">>,
          <<"F","r","o","n","t"," ","C","a","m"," ","S","e","l","e","c","t","s"," ","U+2014"," ","T","a","k","e","s">>,
          <<"F","o","l","e","y","/","P","r","o","d"," ","S","e","l","e","c","t","s"," ","U+2014"," ","(","B","u","t","t","o","n","s"," ","U+2022"," ","K","n","o","b","s"," ","U+2022"," ","P","a","d","s",")">>>>],
       [name |-> <<"5","0"," ","|"," ","S","y","n","c"," ","&"," ","M","u","l","t","i","c","a","m">>,
        timelines |-> <<
          <<"M","u","l","t","i","c","a","m"," ","U+2014"," ","O","v","e","r","h","e","a","d"," ","+"," ","F","r","o","n","t">>>>]
     >>]
  >>

-----------------------------------------------------------------------------
(* Seconds-only pacing                                                     *)

Has(f, k) == k \in DOMAIN f

\* the "X" if "X" in t else ... chain shared by the master branches
TierOf(t) ==
  IF Contains(t, <<"1","2","s">>) THEN "12s"
  ELSE IF Contains(t, <<"2","2","s">>) THEN "22s"
  ELSE "30s"

lane_tier_from_title(title) ==
  LET t == Lower(title)
      nt == Replace(t, "U+2014", "-")
  IN  IF Contains(t, <<"m","o","n","e","y"," ","m","a","s","t","e","r">>)
        THEN <<"money", TierOf(t)>>
      ELSE IF Contains(t, <<"m","v"," ","m","a","s","t","e","r">>)
        THEN <<"mv", TierOf(t)>>
      ELSE IF Contains(t, <<"f","a","s","h","i","o","n"," ","m","a","s","t","e","r">>)
        THEN <<"fashion", TierOf(t)>>
      ELSE IF Contains(t, <<"t","h"," ","m","a","s","t","e","r">>)
        THEN <<"talking", TierOf(t)>>
      ELSE IF Contains(t, <<"d","i","l"," ","m","a","s","t","e","r">>)
        THEN <<"dil", TierOf(t)>>
      ELSE IF Contains(t, <<"c","o","o","k","-","u","p"," ","m","a","s","t","e","r">>)
        THEN <<"cook", TierOf(t)>>
      ELSE IF StartsWith(nt, <<"s","e","g","m","e","n","t"," ","-">>)
        THEN <<"mv", "30s">>
      ELSE IF StartsWith(nt, <<"i","n","t","e","r","v","i","e","w"," ","-">>)
        THEN <<"talking", "30s">>
      ELSE IF StartsWith(nt, <<"l","o","o","k"," ","-">>)
        THEN <<"fashion", "30s">>
      ELSE IF StartsWith(nt, <<"c","h","a","p","t","e","r"," ","-">>)
        THEN <<"dil", "30s">>
      ELSE IF StartsWith(nt, <<"s","e","c","t","i","o","n"," ","-">>)
        THEN <<"cook", "30s">>
      ELSE <<Null, Null>>

\* a piece of a note that is white space only
Blank(piece) == piece \in {"", " ", "\n", "\t"}

\* str.rstrip() on a note: the pieces up to the last one that is not blank
RECURSIVE rstrip(_)
rstrip(notes) ==
  IF notes = <<>> THEN <<>>
  ELSE IF Blank(notes[Len(notes)]) THEN rstrip(SubSeq(notes, 1, Len(notes) - 1))
  ELSE notes

\* str.rstrip() leaves nothing
NoteEmpty(notes) == rstrip(notes) = <<>>

\* variant: the packs come out in reverse order
enrich_marker_notes_reversed(markers, lane, tier) ==
  IF markers = <<>> \/ lane = Null \/ tier = Null THEN markers
  ELSE
    LET byTier == IF Has(PACING_S, lane) THEN PACING_S[lane] ELSE <<>>
        rules  == IF Has(byTier, tier) THEN byTier[tier] ELSE <<>>
        tipOf(m) == IF Has(rules, m.name) THEN rules[m.name] ELSE ""
        enrich(m) ==
          IF tipOf(m) = "" THEN m
          ELSE IF ~NoteEmpty(m.notes)
            THEN [m EXCEPT !.notes = rstrip(m.notes) \o <<"\n[U+2014] Cuts: ", tipOf(m)>>]
            ELSE [m EXCEPT !.notes = <<"Cuts: ", tipOf(m)>>]
    IN  [i \in 1..Len(markers) |-> enrich(markers[Len(markers) + 1 - i])]

enrich_marker_notes(markers, lane, tier) ==
  IF markers = <<>> \/ lane = Null \/ tier = Null THEN markers
  ELSE
    LET byTier == IF Has(PACING_S, lane) THEN PACING_S[lane] ELSE <<>>
        rules  == IF Has(byTier, tier) THEN byTier[tier] ELSE <<>>
        tipOf(m) == IF Has(rules, m.name) THEN rules[m.name] ELSE ""
        enrich(m) ==
          IF tipOf(m) = "" THEN m
          ELSE IF ~NoteEmpty(m.notes)
            THEN [m EXCEPT !.notes = rstrip(m.notes) \o <<"\n[U+2014] Cuts: ", tipOf(m)>>]
            ELSE [m EXCEPT !.notes = <<"Cuts: ", tipOf(m)>>]
    IN  [i \in 1..Len(markers) |-> enrich(markers[i])]

\* the input list as the call leaves it: m2 = dict(m) is a copy of the marker,
\* and the directive is written to the copy
enrich_marker_notes_input(markers, lane, tier) == markers

infer_lane_from_pillar_or_title(pillar_name, title) ==
  LET p == Lower(pillar_name)
      t == Lower(title)
  IN  IF \/ Contains(p, <<"m","u","s","i","c","-","v","i","d","e","o">>)
         \/ StartsWith(t, <<"s","e","g","m","e","n","t"," ","U+2014">>)
         \/ StartsWith(t, <<"m","v"," ","m","a","s","t","e","r">>)
        THEN "mv"
      ELSE IF \/ Contains(p, <<"f","a","s","h","i","o","n">>)
              \/ StartsWith(t, <<"l","o","o","k"," ","U+2014">>)
              \/ StartsWith(t, <<"f","a","s","h","i","o","n"," ","m","a","s","t","e","r">>)
        THEN "fashion"
      ELSE IF \/ Contains(p, <<"t","a","l","k","i","n","g"," ","h","e","a","d">>)
              \/ StartsWith(t, <<"i","n","t","e","r","v","i","e","w"," ","U+2014">>)
              \/ StartsWith(t, <<"t","h"," ","m","a","s","t","e","r">>)
        THEN "talking"
      ELSE IF \/ Contains(p, <<"d","a","y"," ","i","n"," ","t","h","e"," ","l","i","f","e">>)
              \/ StartsWith(t, <<"c","h","a","p","t","e","r"," ","U+2014">>)
              \/ StartsWith(t, <<"d","i","l"," ","m","a","s","t","e","r">>)
        THEN "dil"
      ELSE IF \/ Contains(p, <<"c","o","o","k","-","u","p","s">>)
              \/ StartsWith(t, <<"s","e","c","t","i","o","n"," ","U+2014">>)
              \/ StartsWith(t, <<"c","o","o","k","-","u","p"," ","m","a","s","t","e","r">>)
        THEN "cook"
      ELSE "money"

-----------------------------------------------------------------------------
(* Principle packs by timeline title                                       *)

shotfx_variant_for_title(norm_title) ==
  LET t == Lower(norm_title)
  IN  IF Contains(t, <<"c","l","o","n","e">>) THEN "clone"
      ELSE IF Contains(t, <<"c","l","e","a","n"," ","p","l","a","t","e">>)
        THEN "clean_plate"
      ELSE IF /\ Contains(t, <<"b","a","c","k","g","r","o","u","n","d">>)
              /\ Contains(t, <<"c","l","e","a","n","u","p">>)
        THEN "background_cleanup"
      ELSE IF \/ /\ Contains(t, <<"r","e","m","o","v","e">>)
                 /\ Contains(t, <<"m","i","c">>)
              \/ Contains(t, <<"m","i","c"," ","c","a","b","l","e">>)
        THEN "remove_mic_cable"
      ELSE IF Contains(t, <<"h","a","n","d"," ","s","p","l","i","t">>)
        THEN "hand_split"
      ELSE IF \/ Contains(t, <<"s","c","r","e","e","n"," ","i","n","s","e","r","t">>)
              \/ Contains(t, <<"(","u","i",")">>)
              \/ /\ Contains(t, <<"s","c","r","e","e","n">>)
                 /\ Contains(t, <<"i","n","s","e","r","t">>)
        THEN "screen_insert"
      ELSE Null

selects_variant_for_title(norm_title) ==
  LET t == Lower(norm_title)
  IN  IF \/ Contains(t, <<"p","e","r","f"," ","s","e","l","e","c","t","s">>)
         \/ Contains(t, <<"p","e","r","f","o","r","m","a","n","c","e"," ","s","e","l","e","c","t","s">>)
        THEN "mv_perf"
      ELSE IF \/ Contains(t, <<"b","-","r","o","l","l"," ","s","e","l","e","c","t","s">>)
              \/ Contains(t, <<"b","r","o","l","l"," ","s","e","l","e","c","t","s">>)
        THEN "broll"
      ELSE IF Contains(t, <<"l","o","o","k"," ","s","e","l","e","c","t","s">>)
        THEN "fashion_look"
      ELSE IF \/ Contains(t, <<"a","-","r","o","l","l"," ","s","e","l","e","c","t","s">>)
              \/ Contains(t, <<"a","r","o","l","l"," ","s","e","l","e","c","t","s">>)
        THEN "th_aroll"
      ELSE IF \/ Contains(t, <<"s","e","l","e","c","t","s"," ","U+2014"," ","c","o","m","m","u","t","e">>)
              \/ Contains(t, <<"s","e","l","e","c","t","s"," ","-"," ","c","o","m","m","u","t","e">>)
              \/ Contains(t, <<"c","o","m","m","u","t","e">>)
        THEN "dil_commute"
      ELSE IF Contains(t, <<"c","o","f","f","e","e">>) THEN "dil_coffee"
      ELSE IF \/ StartsWith(t, <<"s","e","l","e","c","t","s"," ","U+2014">>)
              \/ StartsWith(t, <<"s","e","l","e","c","t","s"," ","-">>)
        THEN "dil_generic"
      ELSE IF Contains(t, <<"o","v","e","r","h","e","a","d"," ","s","e","l","e","c","t","s">>)
        THEN "cook_overhead"
      ELSE IF \/ Contains(t, <<"f","r","o","n","t"," ","c","a","m"," ","s","e","l","e","c","t","s">>)
              \/ Contains(t, <<"f","r","o","n","t","-","c","a","m","e","r","a"," ","s","e","l","e","c","t","s">>)
        THEN "cook_front"
      ELSE IF \/ Contains(t, <<"f","o","l","e","y","/","p","r","o","d"," ","s","e","l","e","c","t","s">>)
              \/ Contains(t, <<"f","o","l","e","y"," ","s","e","l","e","c","t","s">>)
              \/ Contains(t, <<"p","r","o","d"," ","s","e","l","e","c","t","s">>)
        THEN "cook_foley"
      ELSE IF Contains(t, <<"s","t","r","i","n","g","o","u","t">>)
        THEN "stringout_generic"
      ELSE Null

\* the same chain with the look test moved to the front
get_principle_markers_for_title_look_first(title) ==
  LET t == Replace(Replace(Lower(title), "U+2014", "-"), "U+2013", "-")
  IN  IF Contains(t, <<"l","o","o","k">>) THEN PRINCIPLE_PACKS["fashion"]
      ELSE
      IF \/ Contains(t, <<" ","m","o","n","e","y"," ","m","a","s","t","e","r">>)
         \/ StartsWith(t, <<"m","o","n","e","y"," ","m","a","s","t","e","r">>)
         \/ Contains(t, <<" ","m","a","s","t","e","r"," ","-">>)
         \/ StartsWith(t, <<"m","v"," ","m","a","s","t","e","r">>)
         \/ StartsWith(t, <<"t","h"," ","m","a","s","t","e","r">>)
         \/ StartsWith(t, <<"f","a","s","h","i","o","n"," ","m","a","s","t","e","r">>)
         \/ StartsWith(t, <<"d","i","l"," ","m","a","s","t","e","r">>)
         \/ StartsWith(t, <<"c","o","o","k","-","u","p"," ","m","a","s","t","e","r">>)
        THEN <<>>
      ELSE IF \/ Contains(t, <<"s","e","l","e","c","t","s">>)
              \/ Contains(t, <<"s","t","r","i","n","g","o","u","t">>)
        THEN LET var_key == selects_variant_for_title(t)
             IN  IF var_key # Null /\ Has(SELECTS_SPECIFIC, var_key)
                   THEN SELECTS_BASE \o SELECTS_SPECIFIC[var_key]
                   ELSE SELECTS_BASE
      ELSE IF \/ Contains(t, <<"s","h","o","t","f","x">>)
              \/ Contains(t, <<"s","h","o","t"," ","f","x">>)
        THEN LET var_key == shotfx_variant_for_title(t)
             IN  IF var_key # Null /\ Has(SHOTFX_SPECIFIC, var_key)
                   THEN PRINCIPLE_PACKS["shotfx"] \o SHOTFX_SPECIFIC[var_key]
                   ELSE PRINCIPLE_PACKS["shotfx"]
      ELSE IF Contains(t, <<"s","e","g","m","e","n","t">>)
        THEN PRINCIPLE_PACKS["scenes_segments"]
      ELSE IF Contains(t, <<"i","n","t","e","r","v","i","e","w">>)
        THEN PRINCIPLE_PACKS["talking_head"]
      ELSE IF Contains(t, <<"l","o","o","k">>)
        THEN PRINCIPLE_PACKS["fashion"]
      ELSE IF Contains(t, <<"c","h","a","p","t","e","r">>)
        THEN PRINCIPLE_PACKS["day_in_the_life"]
      ELSE IF Contains(t, <<"s","e","c","t","i","o","n">>)
        THEN PRINCIPLE_PACKS["cook_ups"]
      ELSE <<>>

get_principle_markers_for_title(title) ==
  LET t == Replace(Replace(Lower(title), "U+2014", "-"), "U+2013", "-")
  IN  IF \/ Contains(t, <<" ","m","o","n","e","y"," ","m","a","s","t","e","r">>)
         \/ StartsWith(t, <<"m","o","n","e","y"," ","m","a","s","t","e","r">>)
         \/ Contains(t, <<" ","m","a","s","t","e","r"," ","-">>)
         \/ StartsWith(t, <<"m","v"," ","m","a","s","t","e","r">>)
         \/ StartsWith(t, <<"t","h"," ","m","a","s","t","e","r">>)
         \/ StartsWith(t, <<"f","a","s","h","i","o","n"," ","m","a","s","t","e","r">>)
         \/ StartsWith(t, <<"d","i","l"," ","m","a","s","t","e","r">>)
         \/ StartsWith(t, <<"c","o","o","k","-","u","p"," ","m","a","s","t","e","r">>)
        THEN <<>>
      ELSE IF \/ Contains(t, <<"s","e","l","e","c","t","s">>)
              \/ Contains(t, <<"s","t","r","i","n","g","o","u","t">>)
        THEN LET var_key == selects_variant_for_title(t)
             IN  IF var_key # Null /\ Has(SELECTS_SPECIFIC, var_key)
                   THEN SELECTS_BASE \o SELECTS_SPECIFIC[var_key]
                   ELSE SELECTS_BASE
      ELSE IF \/ Contains(t, <<"s","h","o","t","f","x">>)
              \/ Contains(t, <<"s","h","o","t"," ","f","x">>)
        THEN LET var_key == shotfx_variant_for_title(t)
             IN  IF var_key # Null /\ Has(SHOTFX_SPECIFIC, var_key)
                   THEN PRINCIPLE_PACKS["shotfx"] \o SHOTFX_SPECIFIC[var_key]
                   ELSE PRINCIPLE_PACKS["shotfx"]
      ELSE IF Contains(t, <<"s","e","g","m","e","n","t">>)
        THEN PRINCIPLE_PACKS["scenes_segments"]
      ELSE IF Contains(t, <<"i","n","t","e","r","v","i","e","w">>)
        THEN PRINCIPLE_PACKS["talking_head"]
      ELSE IF Contains(t, <<"l","o","o","k">>)
        THEN PRINCIPLE_PACKS["fashion"]
      ELSE IF Contains(t, <<"c","h","a","p","t","e","r">>)
        THEN PRINCIPLE_PACKS["day_in_the_life"]
      ELSE IF Contains(t, <<"s","e","c","t","i","o","n">>)
        THEN PRINCIPLE_PACKS["cook_ups"]
      ELSE <<>>

-----------------------------------------------------------------------------
(* Markers: frames, butt-join                                              *)

\* round(x) for x = n / d >= 0 (ties go to the even integer, as Python 3 rounds)
RoundHalfEven(n, d) ==
  LET q == n \div d
      r == n % d
  IN  IF 2 * r < d THEN q
      ELSE IF 2 * r > d THEN q + 1
      ELSE IF q % 2 = 0 THEN q ELSE q + 1

\* variant: int(sec * fps_float), without round()
sec_to_frames_trunc(sec, fps_float) == sec \div FrameTicks(fps_float)

sec_to_frames(sec, fps_float) == RoundHalfEven(sec, FrameTicks(fps_float))

\* sorted(seq, key = t): stable insertion of m into a sorted sequence
RECURSIVE InsertByT(_, _, _)
InsertByT(sorted, m, reverse) ==
  IF sorted = <<>> THEN <<m>>
  ELSE LET h == Head(sorted)
           before == IF reverse THEN h.t >= m.t ELSE h.t <= m.t
       IN  IF before THEN <<h>> \o InsertByT(Tail(sorted), m, reverse)
           ELSE <<m>> \o sorted

RECURSIVE SortedByT(_, _)
SortedByT(markers, reverse) ==
  IF markers = <<>> THEN <<>>
  ELSE InsertByT(SortedByT(SubSeq(markers, 1, Len(markers) - 1), reverse),
                 markers[Len(markers)], reverse)

\* variant: a gap is closed by a whole frame, however small it is
RECURSIVE ButtJoinFromWholeFrame(_, _, _)
ButtJoinFromWholeFrame(ms, i, fps) ==
  IF i > Len(ms) - 1 THEN ms
  ELSE LET cur == ms[i]
           nxt == ms[i + 1]
           gap == nxt.t - (cur.t + cur.dur)
       IN  IF cur.dur <= 0 THEN ButtJoinFromWholeFrame(ms, i + 1, fps)
           ELSE IF gap > 0
             THEN ButtJoinFromWholeFrame(
                    [ms EXCEPT ![i].dur = cur.dur + FrameTicks(fps)],
                    i + 1, fps)
             ELSE ButtJoinFromWholeFrame(ms, i + 1, fps)

\* the loop "for i in range(len(ms) - 1)" of _butt_join_markers, from index i on
RECURSIVE ButtJoinFrom(_, _, _)
ButtJoinFrom(ms, i, fps) ==
  IF i > Len(ms) - 1 THEN ms
  ELSE LET cur == ms[i]
           nxt == ms[i + 1]
           gap == nxt.t - (cur.t + cur.dur)
       IN  IF cur.dur <= 0 THEN ButtJoinFrom(ms, i + 1, fps)
           ELSE IF gap > 0
             THEN ButtJoinFrom(
                    [ms EXCEPT ![i].dur = cur.dur + Min(gap, FrameTicks(fps))],
                    i + 1, fps)
             ELSE ButtJoinFrom(ms, i + 1, fps)

\* variant: the frame length is taken at twice the frame rate
butt_join_markers_double_rate(markers, fps) ==
  IF markers = <<>> THEN markers
  ELSE ButtJoinFrom(SortedByT(markers, FALSE), 1,
                    [num |-> 2 * fps.num, den |-> fps.den])

\* variant: the loop runs over the list in the order given
butt_join_markers_as_given(markers, fps) ==
  IF markers = <<>> THEN markers
  ELSE ButtJoinFrom(markers, 1, fps)

butt_join_markers(markers, fps) ==
  IF markers = <<>> THEN markers
  ELSE ButtJoinFrom(SortedByT(markers, FALSE), 1, fps)

\* the caller's list after _butt_join_markers(markers, fps_str): the function
\* works on dict(m) copies in a new sorted list
butt_join_markers_input(markers, fps) == markers

ensure_min_duration(dur_frames) ==
  Max(1, IF dur_frames = 0 THEN 1 ELSE dur_frames)

\* main(): the two legacy reference timelines
MoneyLegacyTitles ==
  <<
    <<"0","1"," ","|"," ","U+1F4B0"," ","T","h","e"," ","M","o","n","e","y"," ","U+2014"," ","U+23F1"," ","2","9",".","9","7","p"," ","U+2022"," ","U+2301"," ","7","0","9","/","2",".","4"," ","U+2022"," ","U+1F4D0"," ","2","1","6","0","U+00D7","3","8","4","0"," ","U+2022"," ","U+1F39A"," ","v","0","1">>,
    <<"0","1"," ","|"," ","U+1F4B0"," ","T","h","e"," ","M","o","n","e","y"," ","(","R","e","n","d","e","r","-","O","n","l","y"," ","N","e","s","t",")"," ","U+2014"," ","Q","C"," ","U+2022"," ","b","u","r","n","-","i","n","s">>
  >>

\* main(): the tiered Money Masters
MoneyMasters ==
  <<
    [name |-> <<"M","o","n","e","y"," ","M","a","s","t","e","r"," ","U+2014"," ","1","2","s"," ","(","I","G"," ","s","h","o","r","t",")"," ","U+2014"," ","2","1","6","0","U+00D7","3","8","4","0"," ","U+2022"," ","2","9",".","9","7","p">>,
     tier |-> "12s"],
    [name |-> <<"M","o","n","e","y"," ","M","a","s","t","e","r"," ","U+2014"," ","2","2","s"," ","(","I","G"," ","m","i","d",")"," ","U+2014"," ","2","1","6","0","U+00D7","3","8","4","0"," ","U+2022"," ","2","9",".","9","7","p">>,
     tier |-> "22s"],
    [name |-> <<"M","o","n","e","y"," ","M","a","s","t","e","r"," ","U+2014"," ","3","0","s"," ","(","I","G"," ","u","p","p","e","r",")"," ","U+2014"," ","2","1","6","0","U+00D7","3","8","4","0"," ","U+2022"," ","2","9",".","9","7","p">>,
     tier |-> "30s"]
  >>

\* main(): _tier_names(prefix)
tier_names(prefix) ==
  <<
    prefix \o <<" ","U+2014"," ","1","2","s"," ","U+2014"," ","2","1","6","0","U+00D7","3","8","4","0"," ","U+2022"," ","2","9",".","9","7","p">>,
    prefix \o <<" ","U+2014"," ","2","2","s"," ","U+2014"," ","2","1","6","0","U+00D7","3","8","4","0"," ","U+2022"," ","2","9",".","9","7","p">>,
    prefix \o <<" ","U+2014"," ","3","0","s"," ","U+2014"," ","2","1","6","0","U+00D7","3","8","4","0"," ","U+2022"," ","2","9",".","9","7","p">>
  >>

\* main(): title = base if "[U+2014] [U+23F1]" in base else base + suffix
TitleOf(base) ==
  IF Contains(base, <<"U+2014"," ","U+23F1">>) THEN base
  ELSE base \o <<" ","U+2014"," ","U+23F1"," ","2","9",".","9","7","p"," ","U+2022"," ","U+1F4D0"," ","2","1","6","0","U+00D7","3","8","4","0">>

MoneyBin == <<"0","1"," ","|"," ","U+1F4B0"," ","T","h","e"," ","M","o","n","e","y">>
FormulaBin == <<"0","2"," ","|"," ","U+1F9EA"," ","T","h","e"," ","F","o","r","m","u","l","a">>
-----------------------------------------------------------------------------
(* Host calls.  A timeline is a record                                     *)
(*   [name, folder, video, audio, subtitle, markers, items]                *)
(* video/audio/subtitle: the track names by index; markers: the set of     *)
(* markers, at most one per frame (GetMarkers is keyed by frame); items:   *)
(* the number of clips on its tracks.                                      *)

HostTrackName == "(host default name)"

\* the root folder, and the folder main() holds when none could be had (None)
Root == <<>>
NoFolder == << <<"None">> >>

Rep(x, n) == [i \in 1..n |-> x]

\* Timeline.AddMarker(frame, color, name, note, duration[, customData]):
\* refused on an occupied frame, for a color the host does not know, for a
\* duration below one frame, and (api.quirk) on a timeline of zero duration
HostAddMarker(tl, frame, color, name, note, dur, host) ==
  LET ok == /\ \A m \in tl.markers : m.frame # frame
            /\ color \in SUPPORTED_MARKER_COLORS
            /\ dur >= 1
            /\ ~(host.quirk /\ tl.items = 0)
  IN  [ok |-> ok,
       tl |-> IF ok
                THEN [tl EXCEPT !.markers = @ \cup
                        {[frame |-> frame, color |-> color, name |-> name,
                          note |-> note, dur |-> dur]}]
                ELSE tl]

\* AddMarker with 6 (form = 6) or 5 arguments on a host that takes the form;
\* on a build with sixFalse the 6-argument call returns False
HostAddMarkerForm(tl, frame, color, name, note, dur, form, host) ==
  IF form = 6 /\ host.sixFalse THEN [ok |-> FALSE, tl |-> tl]
  ELSE HostAddMarker(tl, frame, color, name, note, dur, host)

\* MediaPool.CreateEmptyTimeline(title) in the current folder
HostNewTimeline(title, folder, n) ==
  [name |-> title, folder |-> folder,
   video |-> Rep(HostTrackName, n), audio |-> Rep(HostTrackName, n),
   subtitle |-> <<>>, markers |-> {}, items |-> 0]

\* Folder.GetSubFolders(): the paths one level below parent
SubFolders(fs, parent) ==
  {p \in fs : Len(p) = Len(parent) + 1 /\ SubSeq(p, 1, Len(parent)) = parent}

-----------------------------------------------------------------------------
(* Data / Stats helpers                                                    *)

BuildStats ==
  [folders_created |-> 0, folders_found |-> 0, timelines_created |-> 0,
   timelines_failed |-> 0, timelines_skipped |-> 0, tracks_created |-> 0,
   errors |-> <<>>]

log_error(st, op) == [st EXCEPT !.errors = Append(@, op)]

-----------------------------------------------------------------------------
(* Folder helpers                                                          *)

\* returns [folder, fs, st, trace]; parent = NoFolder is main()'s missing folder
get_or_create_folder(fs, parent, name, st, host) ==
  IF parent # NoFolder /\ (parent \o <<name>>) \in SubFolders(fs, parent)
    THEN [folder |-> parent \o <<name>>, fs |-> fs,
          st |-> [st EXCEPT !.folders_found = @ + 1],
          trace |-> <<"GetSubFolders", "GetName">>]
  ELSE IF parent = NoFolder
    THEN \* no accessor on None; AddSubFolder(None, name) yields no folder
         [folder |-> NoFolder, fs |-> fs,
          st |-> log_error(st, "Folder creation"),
          trace |-> <<"MediaPool.AddSubFolder">>]
  ELSE IF name \in host.refuse
    THEN \* AddSubFolder answers without a folder: "Could not create"
         [folder |-> NoFolder, fs |-> fs,
          st |-> log_error(st, "Folder creation"),
          trace |-> <<"GetSubFolders", "MediaPool.AddSubFolder">>]
  ELSE IF host.mpAdd
    THEN [folder |-> parent \o <<name>>, fs |-> fs \cup {parent \o <<name>>},
          st |-> [st EXCEPT !.folders_created = @ + 1],
          trace |-> <<"GetSubFolders", "MediaPool.AddSubFolder">>]
    ELSE \* MediaPool.AddSubFolder raised: the parent's own entry point
         [folder |-> parent \o <<name>>, fs |-> fs \cup {parent \o <<name>>},
          st |-> [st EXCEPT !.folders_created = @ + 1],
          trace |-> <<"GetSubFolders", "MediaPool.AddSubFolder",
                      "Folder.AddSubFolder">>]

-----------------------------------------------------------------------------
(* Timeline helpers                                                        *)

\* variant: the index scan stops one short of GetTimelineCount()
timeline_exists_short(ts, name) == \E i \in 1..(Len(ts) - 1) : ts[i].name = name

timeline_exists(ts, name) == \E i \in 1..Len(ts) : ts[i].name = name

\* the timeline's track names of a kind
TracksOf(tl, kind) ==
  IF kind = "video" THEN tl.video
  ELSE IF kind = "audio" THEN tl.audio
  ELSE tl.subtitle

AddTrackCall(kind) ==
  IF kind = "video" THEN "AddTrack(video)"
  ELSE IF kind = "audio" THEN "AddTrack(audio)"
  ELSE "AddTrack(subtitle)"

\* variant: the timeline is cut down to the declared tracks
ensure_tracks_named_exact(tl, kind, names) ==
  LET target == IF kind = "video" THEN Reverse(names) ELSE names
      have == Len(TracksOf(tl, kind))
      need == Len(target) - have
      trace == <<"GetTrackCount">> \o Rep(AddTrackCall(kind), Max(0, need))
                 \o Rep("SetTrackName", Len(target))
  IN  IF kind = "video"
        THEN [tl |-> [tl EXCEPT !.video = target],
              created |-> Max(0, need), trace |-> trace]
        ELSE [tl |-> [tl EXCEPT !.audio = target,
                                !.subtitle = <<"CC | English">>],
              created |-> Max(0, need),
              trace |-> trace \o <<"GetTrackCount">>]

\* variant: one track is added per declared label, whatever the timeline has
ensure_tracks_named_fixed_add(tl, kind, names) ==
  LET target == IF kind = "video" THEN Reverse(names) ELSE names
      added == TracksOf(tl, kind) \o Rep(HostTrackName, Len(target))
      named == [i \in 1..Len(added) |->
                  IF i <= Len(target) THEN target[i] ELSE added[i]]
      trace == <<"GetTrackCount">> \o Rep(AddTrackCall(kind), Len(target))
                 \o Rep("SetTrackName", Len(target))
  IN  IF kind = "video"
        THEN [tl |-> [tl EXCEPT !.video = named],
              created |-> Len(target), trace |-> trace]
        ELSE [tl |-> [tl EXCEPT !.audio = named,
                                !.subtitle = <<"CC | English">>],
              created |-> Len(target),
              trace |-> trace \o <<"GetTrackCount">>]

\* returns [tl, created, trace]; created counts stats.tracks_created
ensure_tracks_named(tl, kind, names) ==
  LET target == IF kind = "video" THEN Reverse(names) ELSE names
      have == Len(TracksOf(tl, kind))
      need == Len(target) - have
      added == TracksOf(tl, kind) \o Rep(HostTrackName, Max(0, need))
      named == [i \in 1..Len(added) |->
                  IF i <= Len(target) THEN target[i] ELSE added[i]]
      subcnt == Len(tl.subtitle)
      trace == <<"GetTrackCount">> \o Rep(AddTrackCall(kind), Max(0, need))
                 \o Rep("SetTrackName", Len(target))
  IN  IF kind = "video"
        THEN [tl |-> [tl EXCEPT !.video = named],
              created |-> Max(0, need), trace |-> trace]
        ELSE IF subcnt = 0
          THEN [tl |-> [tl EXCEPT !.audio = named,
                                  !.subtitle = <<"CC | English">>],
                created |-> Max(0, need) + 1,
                trace |-> trace \o <<"GetTrackCount", AddTrackCall("subtitle"),
                                   "SetTrackName">>]
          ELSE [tl |-> [tl EXCEPT !.audio = named],
                created |-> Max(0, need),
                trace |-> trace \o <<"GetTrackCount">>]

-----------------------------------------------------------------------------
(* Markers add/re-seed                                                     *)

\* returns [ok, tl, trace]
\* variant: the duration handed to the host counts from zero
add_marker_safe_from_zero(tl, frame, color, name, note, dur_frames, host) ==
  LET dur == ensure_min_duration(dur_frames) - 1
      form == IF host.six THEN 6 ELSE 5
      call == IF host.six THEN "AddMarker/6" ELSE "AddMarker/5"
      \* a host without the 6-argument form raises on it and is asked again
      \* with 5 arguments; a 6-argument call that returns False is not
      pre == IF host.six THEN <<>> ELSE <<"AddMarker/6">>
      pre_tries == IF host.six THEN <<>> ELSE <<[form |-> 6, color |-> color]>>
      r1 == HostAddMarkerForm(tl, frame, color, name, note, dur, form, host)
      fb == IF Has(COLOR_FALLBACK, color) THEN COLOR_FALLBACK[color] ELSE Null
      r2 == HostAddMarkerForm(tl, frame, fb, name, note, dur, form, host)
      t1 == [form |-> form, color |-> color]
      t2 == [form |-> form, color |-> fb]
  IN  IF r1.ok
        THEN [ok |-> TRUE, tl |-> r1.tl, trace |-> pre \o <<call>>, dur |-> dur,
              tries |-> pre_tries \o <<t1>>]
      ELSE IF fb # Null
        THEN [ok |-> r2.ok, tl |-> r2.tl, trace |-> pre \o <<call, call>>,
              dur |-> dur, tries |-> pre_tries \o <<t1, t2>>]
        ELSE [ok |-> FALSE, tl |-> tl, trace |-> pre \o <<call>>, dur |-> dur,
              tries |-> pre_tries \o <<t1>>]

add_marker_safe(tl, frame, color, name, note, dur_frames, host) ==
  LET dur == ensure_min_duration(dur_frames)
      form == IF host.six THEN 6 ELSE 5
      call == IF host.six THEN "AddMarker/6" ELSE "AddMarker/5"
      \* a host without the 6-argument form raises on it and is asked again
      \* with 5 arguments; a 6-argument call that returns False is not
      pre == IF host.six THEN <<>> ELSE <<"AddMarker/6">>
      pre_tries == IF host.six THEN <<>> ELSE <<[form |-> 6, color |-> color]>>
      r1 == HostAddMarkerForm(tl, frame, color, name, note, dur, form, host)
      fb == IF Has(COLOR_FALLBACK, color) THEN COLOR_FALLBACK[color] ELSE Null
      r2 == HostAddMarkerForm(tl, frame, fb, name, note, dur, form, host)
      t1 == [form |-> form, color |-> color]
      t2 == [form |-> form, color |-> fb]
  IN  IF r1.ok
        THEN [ok |-> TRUE, tl |-> r1.tl, trace |-> pre \o <<call>>, dur |-> dur,
              tries |-> pre_tries \o <<t1>>]
      ELSE IF fb # Null
        THEN [ok |-> r2.ok, tl |-> r2.tl, trace |-> pre \o <<call, call>>,
              dur |-> dur, tries |-> pre_tries \o <<t1, t2>>]
        ELSE [ok |-> FALSE, tl |-> tl, trace |-> pre \o <<call>>, dur |-> dur,
              tries |-> pre_tries \o <<t1>>]

count_markers(tl) == Cardinality(tl.markers)

\* variant: a color the host does not know becomes "Red", the fallback table
\* is not asked
RECURSIVE AddMarkersFromRed(_, _, _, _, _)
AddMarkersFromRed(acc, sorted_markers, i, fps_float, host) ==
  IF i > Len(sorted_markers) THEN acc
  ELSE LET m == sorted_markers[i]
           frame == sec_to_frames(m.t, fps_float)
           dur0 == sec_to_frames(m.dur, fps_float)
           dur == IF dur0 < 1 THEN 1 ELSE dur0
           color == IF m.color \notin SUPPORTED_MARKER_COLORS THEN "Red"
                    ELSE m.color
           r == add_marker_safe(acc.tl, frame, color, m.name, m.notes, dur, host)
       IN  AddMarkersFromRed(
             [tl |-> r.tl,
              added |-> IF r.ok THEN acc.added + 1 ELSE acc.added,
              trace |-> acc.trace \o r.trace,
              durs |-> Append(acc.durs, r.dur),
              attempts |-> Append(acc.attempts,
                                  [frame |-> frame, name |-> m.name,
                                   declared |-> m.color,
                                   ok |-> r.ok, tries |-> r.tries])],
             sorted_markers, i + 1, fps_float, host)

\* the loop "for m in sorted_markers", from index i on; acc = [tl, added,
\* trace, durs], durs the duration of the AddMarker calls marker by marker
RECURSIVE AddMarkersFrom(_, _, _, _, _)
AddMarkersFrom(acc, sorted_markers, i, fps_float, host) ==
  IF i > Len(sorted_markers) THEN acc
  ELSE LET m == sorted_markers[i]
           frame == sec_to_frames(m.t, fps_float)
           dur0 == sec_to_frames(m.dur, fps_float)
           dur == IF dur0 < 1 THEN 1 ELSE dur0
           color == IF m.color \notin SUPPORTED_MARKER_COLORS
                      THEN (IF Has(COLOR_FALLBACK, m.color)
                              THEN COLOR_FALLBACK[m.color] ELSE "Red")
                      ELSE m.color
           r == add_marker_safe(acc.tl, frame, color, m.name, m.notes, dur, host)
       IN  AddMarkersFrom(
             [tl |-> r.tl,
              added |-> IF r.ok THEN acc.added + 1 ELSE acc.added,
              trace |-> acc.trace \o r.trace,
              durs |-> Append(acc.durs, r.dur),
              attempts |-> Append(acc.attempts,
                                  [frame |-> frame, name |-> m.name,
                                   declared |-> m.color,
                                   ok |-> r.ok, tries |-> r.tries])],
             sorted_markers, i + 1, fps_float, host)

\* variant: the pack is placed whatever the timeline already holds
add_markers_to_timeline_unguarded(tl, fps_float, markers, force, host) ==
  LET existing == count_markers(tl)
      r == AddMarkersFrom([tl |-> tl, added |-> 0,
                           trace |-> <<"GetMarkers", "GetName">>,
                           durs |-> <<>>, attempts |-> <<>>],
                          SortedByT(markers, TRUE), 1, fps_float, host)
  IN  IF Len(markers) = 0
        THEN [tl |-> tl, added |-> 0, trace |-> <<"GetMarkers">>,
              existing |-> existing, force |-> force, durs |-> <<>>,
              attempts |-> <<>>]
      ELSE r @@ [existing |-> existing, force |-> force]

\* variant: the pack is placed nearest marker first
add_markers_to_timeline_nearest_first(tl, fps_float, markers, force, host) ==
  LET existing == count_markers(tl)
      r == AddMarkersFrom([tl |-> tl, added |-> 0,
                           trace |-> <<"GetMarkers", "GetName">>,
                           durs |-> <<>>, attempts |-> <<>>],
                          SortedByT(markers, FALSE), 1, fps_float, host)
  IN  IF existing > 0 /\ ~force
        THEN [tl |-> tl, added |-> 0, trace |-> <<"GetMarkers">>,
              existing |-> existing, force |-> force, durs |-> <<>>,
              attempts |-> <<>>]
      ELSE IF Len(markers) = 0
        THEN [tl |-> tl, added |-> 0, trace |-> <<"GetMarkers">>,
              existing |-> existing, force |-> force, durs |-> <<>>,
              attempts |-> <<>>]
      ELSE r @@ [existing |-> existing, force |-> force]

\* returns [tl, added, trace, existing, force, durs, attempts]
add_markers_to_timeline_if_empty(tl, fps_float, markers, force, host) ==
  LET existing == count_markers(tl)
      r == AddMarkersFrom([tl |-> tl, added |-> 0,
                           trace |-> <<"GetMarkers", "GetName">>,
                           durs |-> <<>>, attempts |-> <<>>],
                          SortedByT(markers, TRUE), 1, fps_float, host)
  IN  IF existing > 0 /\ ~force
        THEN [tl |-> tl, added |-> 0, trace |-> <<"GetMarkers">>,
              existing |-> existing, force |-> force, durs |-> <<>>,
              attempts |-> <<>>]
      ELSE IF Len(markers) = 0
        THEN [tl |-> tl, added |-> 0, trace |-> <<"GetMarkers">>,
              existing |-> existing, force |-> force, durs |-> <<>>,
              attempts |-> <<>>]
      ELSE r @@ [existing |-> existing, force |-> force]

\* returns [ok, tl, imported, trace]
ensure_timeline_nonempty_with_silence(tl) ==
  IF tl.items > 0
    THEN [ok |-> TRUE, tl |-> tl, imported |-> 0,
          trace |-> <<"GetTrackCount", "GetItemListInTrack">>]
    ELSE [ok |-> TRUE, tl |-> [tl EXCEPT !.items = 1], imported |-> 1,
          trace |-> <<"GetTrackCount", "GetItemListInTrack", "ImportMedia",
                      "SetCurrentTimeline", "AppendToTimeline">>]

-----------------------------------------------------------------------------
(* Project defaults around timeline creation                               *)

SettingKeys ==
  <<"timelineResolutionWidth", "timelineResolutionHeight",
    "timelinePlaybackFrameRate", "timelineFrameRate",
    "timelineDropFrameTimecode", "timelineInterlaceProcessing">>

\* returns [prev, settings, trace]
set_project_defaults(sett, unread, w, h, fps) ==
  [prev |-> [k \in DOMAIN sett |-> IF k \in unread THEN Null ELSE sett[k]],
   settings |->
     [k \in DOMAIN sett |->
        IF k = "timelineResolutionWidth" THEN w
        ELSE IF k = "timelineResolutionHeight" THEN h
        ELSE IF k = "timelinePlaybackFrameRate" THEN fps
        ELSE IF k = "timelineFrameRate" THEN fps
        ELSE "0"],
   trace |-> Rep("GetSetting", Len(SettingKeys)) \o Rep("SetSetting", Len(SettingKeys))]

\* returns [settings, trace]
restore_project_defaults(sett, prev) ==
  [settings |-> [k \in DOMAIN sett |-> IF prev[k] = Null THEN sett[k] ELSE prev[k]],
   trace |-> Rep("SetSetting", Cardinality({k \in DOMAIN prev : prev[k] # Null}))]

-----------------------------------------------------------------------------
(* main(): the declared work, in the order main() walks it.  A task is     *)
(*   [op |-> "folder", into, parent, name]     get_or_create_folder        *)
(*   [op |-> "timeline", folder, title, markers]                           *)
(*                                     create_vertical_timeline_unique     *)
(* into/parent/folder name the variable of main() that holds the folder.   *)

RECURSIVE Flatten(_)
Flatten(ss) == IF ss = <<>> THEN <<>> ELSE Head(ss) \o Flatten(Tail(ss))

FolderTask(into, parent, name) ==
  [op |-> "folder", into |-> into, parent |-> parent, name |-> name,
   title |-> <<>>, markers |-> <<>>]

TimelineTask(folder, title, markers) ==
  [op |-> "timeline", into |-> "", parent |-> folder, name |-> <<>>,
   title |-> title, markers |-> markers]

TopBinTasks ==
  [i \in 1..Len(TOP_BINS) |-> FolderTask("top", "root", TOP_BINS[i])]

MoneyTasks ==
  [i \in 1..Len(MoneyLegacyTitles) |->
     TimelineTask("money_folder", MoneyLegacyTitles[i], <<>>)]
  \o
  [i \in 1..Len(MoneyMasters) |->
     LET raw == LANE_MARKERS["money"][MoneyMasters[i].tier]
         enriched == enrich_marker_notes(raw, "money", MoneyMasters[i].tier)
         paced == butt_join_markers(enriched, FPS)
     IN  TimelineTask("money_folder", MoneyMasters[i].name, paced)]

\* "selects" if "selects" in title.lower() or "stringouts" in title.lower() else "30s"
DefaultTier(title) ==
  IF \/ Contains(Lower(title), <<"s","e","l","e","c","t","s">>)
     \/ Contains(Lower(title), <<"s","t","r","i","n","g","o","u","t","s">>)
    THEN "selects" ELSE "30s"

\* the pack main() and the project-wide pass hand to the seeding of a title
PacedPrinciplePack(pillar_name, title) ==
  LET pm == get_principle_markers_for_title(title)
      lt == lane_tier_from_title(title)
      lane == IF lt[1] = Null
                THEN infer_lane_from_pillar_or_title(pillar_name, title)
                ELSE lt[1]
      tier == IF lt[2] = Null THEN DefaultTier(title) ELSE lt[2]
  IN  IF pm = <<>> THEN pm
      ELSE butt_join_markers(enrich_marker_notes(pm, lane, tier), FPS)

StandardTask(pillar_name, tl_base) ==
  TimelineTask("sub_folder", TitleOf(tl_base),
               PacedPrinciplePack(pillar_name, TitleOf(tl_base)))

lane_key(pillar_name) ==
  IF Contains(pillar_name, <<"M","u","s","i","c","-","V","i","d","e","o">>) THEN "mv"
  ELSE IF Contains(pillar_name, <<"F","a","s","h","i","o","n">>) THEN "fashion"
  ELSE IF Contains(pillar_name, <<"T","a","l","k","i","n","g"," ","H","e","a","d">>)
    THEN "talking"
  ELSE IF Contains(pillar_name, <<"D","a","y"," ","i","n"," ","t","h","e"," ","L","i","f","e">>)
    THEN "dil"
  ELSE IF Contains(pillar_name, <<"C","o","o","k","-","U","p","s">>) THEN "cook"
  ELSE Null

base_prefix(lane) ==
  IF lane = "mv" THEN <<"M","V"," ","M","a","s","t","e","r">>
  ELSE IF lane = "fashion" THEN <<"F","a","s","h","i","o","n"," ","M","a","s","t","e","r">>
  ELSE IF lane = "talking" THEN <<"T","H"," ","M","a","s","t","e","r">>
  ELSE IF lane = "dil" THEN <<"D","I","L"," ","M","a","s","t","e","r">>
  ELSE <<"C","o","o","k","-","U","p"," ","M","a","s","t","e","r">>

tier_keys == <<"12s", "22s", "30s">>

MasterTasks(pillar_name) ==
  LET lane == lane_key(pillar_name)
      names == tier_names(base_prefix(lane))
  IN  IF lane = Null THEN <<>>
      ELSE [i \in 1..Min(Len(names), Len(tier_keys)) |->
              LET raw == LANE_MARKERS[lane][tier_keys[i]]
                  enriched == enrich_marker_notes(raw, lane, tier_keys[i])
                  paced == butt_join_markers(enriched, FPS)
              IN  TimelineTask("sub_folder", names[i], paced)]

SubbinTasks(pillar_name, sb) ==
  <<FolderTask("sub_folder", "pillar_folder", sb.name)>>
  \o [k \in 1..Len(sb.timelines) |-> StandardTask(pillar_name, sb.timelines[k])]
  \o (IF StartsWith(sb.name, <<"1","0"," ","|"," ","M","a","s","t","e","r"," ","B","u","i","l","d">>)
        THEN MasterTasks(pillar_name) ELSE <<>>)

PillarTasks(p) ==
  <<FolderTask("pillar_folder", "formula_root", p.name)>>
  \o Flatten([j \in 1..Len(p.subbins) |-> SubbinTasks(p.name, p.subbins[j])])

Program ==
  TopBinTasks \o MoneyTasks
  \o Flatten([i \in 1..Len(PILLARS) |-> PillarTasks(PILLARS[i])])

-----------------------------------------------------------------------------
(* Timeline creation                                                       *)

AddCalls(trace) ==
  Cardinality({i \in 1..Len(trace) : trace[i] \in {"AddMarker/6", "AddMarker/5"}})

\* what one call of add_markers_to_timeline_if_empty did to timeline tl
SeedRec(tl, r) ==
  [existing |-> r.existing, force |-> r.force, added |-> r.added,
   adds |-> AddCalls(r.trace), same |-> r.tl.markers = tl.markers,
   durs |-> r.durs]

NoTimeline == HostNewTimeline(<<>>, Root, 0)

\* returns [tls, settings, cur, st, trace, seeds, idx, before, created]
create_vertical_timeline(ts, sett, cur, unread, n, folder, title, w, h, fps, st, markers, host) ==
  IF folder = NoFolder
    THEN [tls |-> ts, settings |-> sett, cur |-> cur,
          st |-> log_error([st EXCEPT !.timelines_failed = @ + 1],
                           "Timeline creation"),
          trace |-> <<>>, seeds |-> <<>>, idx |-> 0, before |-> NoTimeline,
          created |-> FALSE]
  ELSE
    LET d == set_project_defaults(sett, unread, w, h, fps)
        rs == restore_project_defaults(d.settings, d.prev)
        tl0 == HostNewTimeline(title, folder, n)
        v == ensure_tracks_named(tl0, "video", VIDEO_TRACKS_TOP_TO_BOTTOM)
        a == ensure_tracks_named(v.tl, "audio", AUDIO_TRACKS)
        s == add_markers_to_timeline_if_empty(a.tl, FPS, markers, FALSE, host)
        opening == d.trace \o <<"SetCurrentFolder", "CreateEmptyTimeline">>
                     \o rs.trace
    IN  IF host.create # "ok"
          THEN \* CreateEmptyTimeline returned None ("none") or raised ("raise")
               [tls |-> ts, settings |-> rs.settings, cur |-> folder,
                st |-> log_error([st EXCEPT !.timelines_failed = @ + 1],
                                 "Timeline creation"),
                trace |-> opening, seeds |-> <<>>, idx |-> 0,
                before |-> NoTimeline, created |-> FALSE]
        ELSE IF markers # <<>>
          THEN [tls |-> Append(ts, s.tl), settings |-> rs.settings,
                cur |-> folder,
                st |-> [st EXCEPT !.tracks_created = @ + v.created + a.created,
                                  !.timelines_created = @ + 1],
                trace |-> opening \o v.trace \o a.trace \o s.trace,
                seeds |-> <<SeedRec(a.tl, s)>>, idx |-> Len(ts) + 1,
                before |-> tl0, created |-> TRUE]
          ELSE [tls |-> Append(ts, a.tl), settings |-> rs.settings,
                cur |-> folder,
                st |-> [st EXCEPT !.tracks_created = @ + v.created + a.created,
                                  !.timelines_created = @ + 1],
                trace |-> opening \o v.trace \o a.trace,
                seeds |-> <<>>, idx |-> Len(ts) + 1,
                before |-> tl0, created |-> TRUE]

\* returns [tl, trace]
upgrade_existing_track_labels(tl) ==
  LET v == ensure_tracks_named(tl, "video", VIDEO_TRACKS_TOP_TO_BOTTOM)
      a == ensure_tracks_named(v.tl, "audio", AUDIO_TRACKS)
  IN  [tl |-> a.tl, trace |-> v.trace \o a.trace \o <<"GetName">>]

ExistsTrace == <<"GetTimelines", "GetName">>

\* variant: the timeline is created without asking whether the title exists
create_vertical_timeline_always(ts, sett, cur, unread, n, folder, title, w, h, fps, st, markers, host) ==
  create_vertical_timeline(ts, sett, cur, unread, n, folder, title, w, h, fps,
                           st, markers, host)

\* returns [tls, settings, cur, st, trace, seeds, idx, before, created]
create_vertical_timeline_unique(ts, sett, cur, unread, n, folder, title, w, h, fps, st, markers, host) ==
  IF timeline_exists(ts, title)
    THEN
      LET i == CHOOSE k \in 1..Len(ts) :
                 /\ ts[k].name = title
                 /\ \A j \in 1..(k - 1) : ts[j].name # title
          u == upgrade_existing_track_labels(ts[i])
          s == add_markers_to_timeline_if_empty(u.tl, FPS, markers, FALSE, host)
          scan == ExistsTrace \o <<"GetTimelineCount", "GetTimelineByIndex", "GetName">>
      IN  IF markers # <<>>
            THEN [tls |-> [ts EXCEPT ![i] = s.tl], settings |-> sett, cur |-> cur,
                  st |-> [st EXCEPT !.timelines_skipped = @ + 1],
                  trace |-> scan \o u.trace \o s.trace,
                  seeds |-> <<SeedRec(u.tl, s)>>, idx |-> i, before |-> ts[i],
                  created |-> FALSE]
            ELSE [tls |-> [ts EXCEPT ![i] = u.tl], settings |-> sett, cur |-> cur,
                  st |-> [st EXCEPT !.timelines_skipped = @ + 1],
                  trace |-> scan \o u.trace,
                  seeds |-> <<>>, idx |-> i, before |-> ts[i],
                  created |-> FALSE]
    ELSE
      LET c == create_vertical_timeline(ts, sett, cur, unread, n, folder, title,
                                        w, h, fps, st, markers, host)
      IN  [c EXCEPT !.trace = ExistsTrace \o <<"GetTimelineCount">> \o @]

-----------------------------------------------------------------------------
(* The project-wide principle pass, one timeline                           *)

\* returns [tl, cur, imported, trace, seeds]; i is the timeline's index
seed_principle_markers(tl, i, cur, force, host) ==
  LET title == tl.name
      markers == PacedPrinciplePack(<<>>, title)
      s1 == add_markers_to_timeline_if_empty(tl, FPS, markers, force, host)
      f == ensure_timeline_nonempty_with_silence(s1.tl)
      s2 == add_markers_to_timeline_if_empty(f.tl, FPS, markers, TRUE, host)
      head == <<"GetTimelineByIndex", "GetName", "SetCurrentTimeline">>
  IN  IF get_principle_markers_for_title(title) = <<>>
        THEN [tl |-> tl, cur |-> cur, imported |-> 0, raised |-> FALSE,
              trace |-> <<"GetTimelineByIndex", "GetName">>, seeds |-> <<>>]
      ELSE IF host.setcur = "raise"
        THEN \* project.SetCurrentTimeline(tl) is not inside a try
             [tl |-> tl, cur |-> cur, imported |-> 0, raised |-> TRUE,
              trace |-> head, seeds |-> <<>>]
      ELSE IF s1.added > 0
        THEN [tl |-> s1.tl, cur |-> i, imported |-> 0, raised |-> FALSE,
              trace |-> head \o s1.trace, seeds |-> <<SeedRec(tl, s1)>>]
      ELSE IF s1.added = 0 /\ count_markers(s1.tl) = 0
        THEN [tl |-> s2.tl, cur |-> i, imported |-> f.imported, raised |-> FALSE,
              trace |-> head \o s1.trace \o <<"GetMarkers">> \o f.trace \o s2.trace,
              seeds |-> <<SeedRec(tl, s1), SeedRec(f.tl, s2)>>]
      ELSE [tl |-> s1.tl, cur |-> i, imported |-> 0, raised |-> FALSE,
            trace |-> head \o s1.trace \o <<"GetMarkers">>,
            seeds |-> <<SeedRec(tl, s1)>>]
-----------------------------------------------------------------------------
(* Initial states: the host project the driver is pointed at                *)

UserVideoTracks ==
  <<"user V1", "user V2", "user V3", "user V4", "user V5", "user V6",
    "user V7", "user V8", "user V9", "user V10", "user V11", "user V12">>

UserAudioTracks ==
  <<"user A1", "user A2", "user A3", "user A4", "user A5", "user A6",
    "user A7", "user A8", "user A9", "user A10", "user A11", "user A12",
    "user A13", "user A14", "user A15", "user A16", "user A17", "user A18">>

\* a project that was never built: only the root folder
FreshProject == [folders |-> {Root}, tls |-> <<>>]

\* a project an editor has worked in: the Money bin exists; a timeline with
\* the name of the 12s Money Master holds a clip, one marker and more tracks
\* than the catalog declares; an empty timeline has the name of a declared
\* selects timeline
UserProject ==
  [folders |-> {Root, <<MoneyBin>>},
   tls |->
     <<[name |-> MoneyMasters[1].name, folder |-> Root,
        video |-> UserVideoTracks, audio |-> UserAudioTracks,
        subtitle |-> <<>>,
        markers |-> {[frame |-> 90, color |-> "Blue", name |-> "user marker",
                      note |-> <<"keep">>, dur |-> 1]},
        items |-> 1],
       [name |-> TitleOf(PILLARS[1].subbins[4].timelines[2]), folder |-> Root,
        video |-> <<"user V1">>, audio |-> <<"user A1">>,
        subtitle |-> <<"user S1">>, markers |-> {}, items |-> 0]>>]

Projects == {FreshProject, UserProject}

PriorSettings ==
  [k \in {SettingKeys[i] : i \in 1..Len(SettingKeys)} |->
     IF k = "timelineResolutionWidth" THEN "1920"
     ELSE IF k = "timelineResolutionHeight" THEN "1080"
     ELSE IF k = "timelinePlaybackFrameRate" THEN "24"
     ELSE IF k = "timelineFrameRate" THEN "24"
     ELSE "1"]

\* every setting set, or exactly one setting unset
SettingsChoices ==
  {PriorSettings}
  \cup {[PriorSettings EXCEPT ![k] = Null] : k \in DOMAIN PriorSettings}

\* no setting, or exactly one, that GetSetting cannot read
UnreadableChoices == {{}} \cup {{k} : k \in DOMAIN PriorSettings}

\* host builds: six = AddMarker takes the 6-argument form; mpAdd =
\* MediaPool.AddSubFolder works; quirk = markers are refused on a timeline of
\* zero duration; create = what CreateEmptyTimeline does
StockBuild ==
  [six |-> TRUE, mpAdd |-> TRUE, quirk |-> FALSE, create |-> "ok",
   conn |-> "ok", setcur |-> "ok", refuse |-> {}, sixFalse |-> FALSE]

\* the stock build and the builds that differ from it in one respect
HostBuilds ==
  {StockBuild,
   [StockBuild EXCEPT !.six = FALSE],
   [StockBuild EXCEPT !.sixFalse = TRUE],
   [StockBuild EXCEPT !.mpAdd = FALSE],
   [StockBuild EXCEPT !.quirk = TRUE],
   [StockBuild EXCEPT !.create = "none"],
   [StockBuild EXCEPT !.create = "raise"],
   [StockBuild EXCEPT !.conn = "unreachable"],
   [StockBuild EXCEPT !.conn = "no_project"],
   [StockBuild EXCEPT !.conn = "no_root"],
   [StockBuild EXCEPT !.setcur = "raise"],
   [StockBuild EXCEPT !.refuse = {PILLARS[1].name}]}

\* a host that answers, creates every timeline asked for and takes markers on it
Cooperative(host) ==
  /\ ~host.quirk
  /\ ~host.sixFalse
  /\ host.create = "ok"
  /\ host.conn = "ok"
  /\ host.setcur = "ok"
  /\ host.refuse = {}

NoLast ==
  [op |-> "", task |-> 0, idx |-> 0, before |-> NoTimeline, trace |-> <<>>,
   seeds |-> <<>>, created |-> FALSE]

InitDriver ==
  /\ force_env \in BOOLEAN
  /\ pc = [phase |-> "start", i |-> 0]
  /\ run = 1
  /\ top = <<>>
  /\ pillar_folder = NoFolder
  /\ sub_folder = NoFolder
  /\ seed_cnt = 0
  /\ stats = BuildStats
  /\ result = Null
  /\ calls = {}
  /\ last = NoLast

InitNamesIdle ==
  /\ the_title = <<>>
  /\ the_pack = <<>>
  /\ the_enriched = <<>>

InitHarnessIdle ==
  /\ in_pack = <<>>
  /\ hist = <<>>
  /\ out_frames = <<>>
  /\ out_durs = <<>>
  /\ out_calls = <<>>
  /\ manifest = <<>> /\ report = <<>>
  /\ InitNamesIdle

InitHost ==
  /\ \E p \in Projects : folders = p.folders /\ tls = p.tls
  /\ \/ settings \in SettingsChoices /\ unreadable = {}
     \/ settings = PriorSettings /\ unreadable \in UnreadableChoices \ {{}}
  /\ newTracks \in 1..MaxNewTracks
  /\ api \in HostBuilds
  /\ curFolder = Root
  /\ curTimeline = 0
  /\ clips = 0
  /\ start = [folders |-> folders, tls |-> tls, settings |-> settings]

StockSettings == settings = PriorSettings /\ unreadable = {}

\* the stock host with stock settings meets every project and flag; a host or
\* a settings table that departs from stock meets the fresh project
OneDeparture ==
  \/ api = StockBuild /\ StockSettings
  \/ /\ api = StockBuild \/ StockSettings
     /\ folders = FreshProject.folders /\ tls = FreshProject.tls
     /\ newTracks = 1
     /\ ~force_env

Init == InitHost /\ InitDriver /\ InitHarnessIdle /\ OneDeparture

-----------------------------------------------------------------------------
(* main()                                                                  *)

Range(s) == {s[i] : i \in 1..Len(s)}

Get(f, k) == IF k \in DOMAIN f THEN f[k] ELSE NoFolder

Put(f, k, v) == [x \in DOMAIN f \cup {k} |-> IF x = k THEN v ELSE f[x]]

\* the folder a task names by the variable of main() that holds it
FolderOf(ref) ==
  IF ref = "root" THEN Root
  ELSE IF ref = "money_folder" THEN Get(top, MoneyBin)
  ELSE IF ref = "formula_root" THEN Get(top, FormulaBin)
  ELSE IF ref = "pillar_folder" THEN pillar_folder
  ELSE sub_folder

AfterTask ==
  IF pc.i < Len(Program) THEN [phase |-> "build", i |-> pc.i + 1]
  ELSE [phase |-> "seed_begin", i |-> 0]

\* get_resolve() and main() up to the first folder: a fresh BuildStats, the
\* open project, the media pool's root folder
Begin ==
  /\ pc.phase = "start"
  /\ stats' = BuildStats
  /\ top' = <<>>
  /\ pillar_folder' = NoFolder
  /\ sub_folder' = NoFolder
  /\ seed_cnt' = 0
  /\ last' = [NoLast EXCEPT !.op = "begin"]
  /\ start' = [folders |-> folders, tls |-> tls, settings |-> settings]
  /\ \/ /\ api.conn = "unreachable"          \* get_resolve(): sys.exit(1)
        /\ calls' = {}
        /\ result' = Null
        /\ pc' = [phase |-> "exit", i |-> 0]
     \/ /\ api.conn = "no_project"           \* return False
        /\ calls' = {"GetProjectManager", "GetCurrentProject"}
        /\ result' = FALSE
        /\ pc' = [phase |-> "done", i |-> 0]
     \/ /\ api.conn = "no_root"              \* return False
        /\ calls' = {"GetProjectManager", "GetCurrentProject",
                     "GetName", "GetMediaPool", "GetRootFolder"}
        /\ result' = FALSE
        /\ pc' = [phase |-> "done", i |-> 0]
     \/ /\ api.conn = "ok"
        /\ calls' = {"GetProjectManager", "GetCurrentProject",
                     "GetName", "GetMediaPool", "GetRootFolder"}
        /\ result' = Null
        /\ pc' = [phase |-> "build", i |-> 1]
  /\ UNCHANGED <<hostVars, force_env, run, harnessVars>>

\* one get_or_create_folder call of main()
EnsureFolder ==
  /\ pc.phase = "build"
  /\ \E task \in {Program[pc.i]} :
       /\ task.op = "folder"
       /\ \E r \in {get_or_create_folder(folders, FolderOf(task.parent),
                                          task.name, stats, api)} :
            /\ folders' = r.fs
            /\ stats' = r.st
            /\ top' = IF task.into = "top" THEN Put(top, task.name, r.folder)
                      ELSE top
            /\ pillar_folder' = IF task.into = "pillar_folder" THEN r.folder
                                ELSE pillar_folder
            /\ sub_folder' = IF task.into = "sub_folder" THEN r.folder
                             ELSE sub_folder
            /\ calls' = calls \cup Range(r.trace)
            /\ last' = [NoLast EXCEPT !.op = "folder", !.task = pc.i,
                                      !.trace = r.trace]
  /\ pc' = AfterTask
  /\ UNCHANGED <<tls, settings, unreadable, newTracks, api, curFolder,
                 curTimeline, clips, force_env, run, seed_cnt, result, start,
                 harnessVars>>

\* one create_vertical_timeline_unique call of main()
EnsureTimeline ==
  /\ pc.phase = "build"
  /\ \E task \in {Program[pc.i]} :
       /\ task.op = "timeline"
       /\ \E r \in {create_vertical_timeline_unique(
                       tls, settings, curFolder, unreadable, newTracks,
                       FolderOf(task.parent), task.title, WIDTH, HEIGHT,
                       FPS_STR, stats, task.markers, api)} :
            /\ tls' = r.tls
            /\ settings' = r.settings
            /\ curFolder' = r.cur
            /\ stats' = r.st
            /\ calls' = calls \cup Range(r.trace)
            /\ last' = [op |-> "timeline", task |-> pc.i, idx |-> r.idx,
                        before |-> r.before, trace |-> r.trace,
                        seeds |-> r.seeds, created |-> r.created]
  /\ pc' = AfterTask
  /\ UNCHANGED <<folders, unreadable, newTracks, api, curTimeline, clips,
                 force_env, run, top, pillar_folder, sub_folder, seed_cnt,
                 result, start, harnessVars>>

\* seed_principle_markers_across_project up to its loop
SeedBegin ==
  /\ pc.phase = "seed_begin"
  /\ seed_cnt' = Len(tls)
  /\ calls' = calls \cup {"GetTimelineCount"}
  /\ last' = [NoLast EXCEPT !.op = "seed_begin", !.trace = <<"GetTimelineCount">>]
  /\ pc' = IF Len(tls) >= 1 THEN [phase |-> "seed", i |-> 1]
           ELSE [phase |-> "summary", i |-> 0]
  /\ UNCHANGED <<hostVars, force_env, run, top, pillar_folder, sub_folder,
                 stats, result, start, harnessVars>>

\* one iteration of the loop of seed_principle_markers_across_project
SeedPrinciple ==
  /\ pc.phase = "seed"
  /\ \E r \in {seed_principle_markers(tls[pc.i], pc.i, curTimeline, force_env,
                                       api)} :
       /\ tls' = [tls EXCEPT ![pc.i] = r.tl]
       /\ curTimeline' = r.cur
       /\ clips' = clips + r.imported
       /\ calls' = calls \cup Range(r.trace)
       /\ last' = [op |-> "seed", task |-> 0, idx |-> pc.i,
                   before |-> tls[pc.i], trace |-> r.trace, seeds |-> r.seeds,
                   created |-> FALSE]
       /\ pc' = IF r.raised THEN [phase |-> "aborted", i |-> pc.i]
                ELSE IF pc.i < seed_cnt THEN [phase |-> "seed", i |-> pc.i + 1]
                ELSE [phase |-> "summary", i |-> 0]
  /\ UNCHANGED <<folders, settings, unreadable, newTracks, api, curFolder,
                 force_env, run, top, pillar_folder, sub_folder, seed_cnt,
                 stats, result, start, harnessVars>>

\* main(): summary + save
Summary ==
  /\ pc.phase = "summary"
  /\ result' = (Len(stats.errors) = 0)
  /\ calls' = calls \cup {"Save"}
  /\ last' = [NoLast EXCEPT !.op = "summary", !.trace = <<"Save">>]
  /\ pc' = [phase |-> "done", i |-> 0]
  /\ UNCHANGED <<hostVars, force_env, run, top, pillar_folder, sub_folder,
                 seed_cnt, stats, start, harnessVars>>

\* the exit status with the test of success turned around
ExitCodeFlipped ==
  IF pc.phase = "done" THEN (IF result THEN 1 ELSE 0)
  ELSE IF pc.phase \in {"exit", "aborted"} THEN 1
  ELSE -1

\* sys.exit(0 if success else 1); a run left by sys.exit(1) or by an
\* exception that nothing caught ends with status 1; -1 while main() runs
ExitCode ==
  IF pc.phase = "done" THEN (IF result THEN 0 ELSE 1)
  ELSE IF pc.phase \in {"exit", "aborted"} THEN 1
  ELSE -1

\* the script is run again on the same project
Restart ==
  /\ pc.phase \in {"done", "exit", "aborted"}
  /\ run < MaxRuns
  /\ run' = run + 1
  /\ force_env' \in BOOLEAN
  /\ pc' = [phase |-> "start", i |-> 0]
  /\ UNCHANGED <<hostVars, top, pillar_folder, sub_folder, seed_cnt, stats,
                 result, calls, last, start, harnessVars>>

Next ==
  \/ Begin
  \/ EnsureFolder
  \/ EnsureTimeline
  \/ SeedBegin
  \/ SeedPrinciple
  \/ Summary
  \/ Restart

Spec == Init /\ [][Next]_vars

-----------------------------------------------------------------------------
(* The marker arithmetic on its own: butt-join passes and frame conversion  *)

HalfFrame == FrameTicks(FPS) \div 2

GeneratedMarkers ==
  {[t |-> o * HalfFrame, color |-> "Blue", name |-> "m", dur |-> d * HalfFrame,
    notes |-> <<"">>] :
     o \in 0..MaxOffsetHalfFrames, d \in 0..MaxDurHalfFrames}

GeneratedPacks ==
  UNION {[1..n -> GeneratedMarkers] : n \in 0..MaxLen}

LaneTiers == {"12s", "22s", "30s"}

DeclaredPacks ==
  {LANE_MARKERS[l][k] : l \in DOMAIN LANE_MARKERS, k \in LaneTiers}
  \cup {PRINCIPLE_PACKS[k] : k \in DOMAIN PRINCIPLE_PACKS}
  \cup {SELECTS_BASE \o SELECTS_SPECIFIC[k] : k \in DOMAIN SELECTS_SPECIFIC}
  \cup {Program[i].markers : i \in 1..Len(Program)}

InitPure ==
  /\ in_pack \in GeneratedPacks \cup DeclaredPacks
  /\ hist = <<in_pack>>
  /\ out_frames = <<>>
  /\ out_durs = <<>>
  /\ out_calls = <<>>
  /\ manifest = <<>> /\ report = <<>>
  /\ InitNamesIdle
  /\ folders = FreshProject.folders /\ tls = FreshProject.tls
  /\ StockSettings
  /\ newTracks = 1
  /\ api = StockBuild
  /\ curFolder = Root /\ curTimeline = 0 /\ clips = 0
  /\ start = [folders |-> folders, tls |-> tls, settings |-> settings]
  /\ InitDriver
  /\ ~force_env

\* markers = _butt_join_markers(markers, FPS), applied to its own result
ButtJoin ==
  /\ Len(hist) >= 1
  /\ Len(hist) <= MaxPasses
  /\ hist' = Append([hist EXCEPT ![Len(hist)] =
                                  butt_join_markers_input(hist[Len(hist)], FPS)],
                    butt_join_markers(hist[Len(hist)], FPS))
  /\ UNCHANGED <<hostVars, driverVars, in_pack, out_frames, out_durs, out_calls,
                 the_title, the_pack, the_enriched, manifest, report>>

\* frame = _sec_to_frames(m["t"], fps_float), marker by marker
ToFrames ==
  /\ Len(out_frames) < Len(in_pack)
  /\ out_frames' =
       Append(out_frames, sec_to_frames(in_pack[Len(out_frames) + 1].t, FPS))
  /\ UNCHANGED <<hostVars, driverVars, in_pack, hist, out_durs, out_calls,
                 the_title, the_pack, the_enriched, manifest, report>>

\* add_markers_to_timeline_if_empty(tl, FPS, markers) on a new timeline
PlaceMarkers ==
  /\ in_pack # <<>>
  /\ out_durs = <<>>
  /\ \E r \in {add_markers_to_timeline_if_empty(HostNewTimeline(<<>>, Root, 1),
                                                FPS, in_pack, FALSE, api)} :
       /\ out_durs' = r.durs
       /\ out_calls' = r.attempts
  /\ UNCHANGED <<hostVars, driverVars, in_pack, hist, out_frames, the_title,
                 the_pack, the_enriched, manifest, report>>

NextPure ==
  \/ ButtJoin
  \/ ToFrames
  \/ PlaceMarkers

SpecPure == InitPure /\ [][NextPure]_vars

-----------------------------------------------------------------------------
(* Marker placement on its own: packs of any color on the host builds that *)
(* differ in how AddMarker answers                                          *)

\* packs of markers in a color without fallback, with a fallback inside and
\* outside the supported set, and in a color the tables do not know
ColoredPacks ==
  LET colored == {[t |-> o * HalfFrame, color |-> c, name |-> "m", dur |-> 0,
                   notes |-> <<"">>] :
                    o \in 0..MaxOffsetHalfFrames,
                    c \in {"Blue", "Magenta", "Orange", "Teal"}}
  IN  UNION {[1..n -> colored] : n \in 1..MaxLen}

MarkerHosts ==
  {StockBuild,
   [StockBuild EXCEPT !.six = FALSE],
   [StockBuild EXCEPT !.sixFalse = TRUE],
   [StockBuild EXCEPT !.quirk = TRUE]}

InitPlace ==
  /\ in_pack \in ColoredPacks \cup DeclaredPacks
  /\ hist = <<in_pack>>
  /\ out_frames = <<>>
  /\ out_durs = <<>>
  /\ out_calls = <<>>
  /\ manifest = <<>> /\ report = <<>>
  /\ InitNamesIdle
  /\ folders = FreshProject.folders /\ tls = FreshProject.tls
  /\ StockSettings
  /\ newTracks = 1
  /\ api \in MarkerHosts
  /\ curFolder = Root /\ curTimeline = 0 /\ clips = 0
  /\ start = [folders |-> folders, tls |-> tls, settings |-> settings]
  /\ InitDriver
  /\ ~force_env

NextPlace == PlaceMarkers

SpecPlace == InitPlace /\ [][NextPlace]_vars

-----------------------------------------------------------------------------
(* Names and notes on their own: classification of a timeline name and the  *)
(* pacing enrichment of a pack                                              *)

\* src/dev/test_matcher.py: test_names
TestNames ==
  {
    <<"S","e","g","m","e","n","t"," ","U+2014"," ","V","e","r","s","e"," ","P","e","r","f","o","r","m","a","n","c","e"," ","U+2014"," ","U+23F1"," ","2","9",".","9","7","p"," ","U+2022"," ","U+1F4D0"," ","2","1","6","0","U+00D7","3","8","4","0">>,
    <<"S","h","o","t","F","X"," ","U+2014"," ","C","l","o","n","e"," ","i","n"," ","H","a","l","l","w","a","y"," ","(","f","e","a","t","h","e","r"," ","6","U+2013","1","0","p","x",")"," ","U+2014"," ","U+23F1"," ","2","9",".","9","7","p"," ","U+2022"," ","U+1F4D0"," ","2","1","6","0","U+00D7","3","8","4","0">>,
    <<"I","n","t","e","r","v","i","e","w"," ","U+2014"," ","R","a","d","i","o"," ","C","u","t"," ","+"," ","B","-","R","o","l","l"," ","U+2014"," ","U+23F1"," ","2","9",".","9","7","p"," ","U+2022"," ","U+1F4D0"," ","2","1","6","0","U+00D7","3","8","4","0">>,
    <<"L","O","O","K"," ","U+2014"," ","R","o","o","f","t","o","p"," ","G","o","l","d","e","n"," ","H","o","u","r"," ","U+2014"," ","U+23F1"," ","2","9",".","9","7","p"," ","U+2022"," ","U+1F4D0"," ","2","1","6","0","U+00D7","3","8","4","0">>,
    <<"C","h","a","p","t","e","r"," ","U+2014"," ","C","o","f","f","e","e"," ","R","u","n"," ","U+2014"," ","U+23F1"," ","2","9",".","9","7","p"," ","U+2022"," ","U+1F4D0"," ","2","1","6","0","U+00D7","3","8","4","0">>,
    <<"S","e","c","t","i","o","n"," ","U+2014"," ","T","e","a","s","e","r"," ","/"," ","H","o","o","k"," ","P","r","e","v","i","e","w"," ","U+2014"," ","U+23F1"," ","2","9",".","9","7","p"," ","U+2022"," ","U+1F4D0"," ","2","1","6","0","U+00D7","3","8","4","0">>,
    <<"M","o","n","e","y"," ","M","a","s","t","e","r"," ","U+2014"," ","1","2","s"," ","(","I","G"," ","s","h","o","r","t",")"," ","U+2014"," ","2","1","6","0","U+00D7","3","8","4","0"," ","U+2022"," ","2","9",".","9","7","p">>,
    <<"P","E","R","F"," ","S","e","l","e","c","t","s"," ","U+2014"," ","B","e","s","t"," ","L","i","n","e","s"," ","U+2014"," ","U+23F1"," ","2","9",".","9","7","p"," ","U+2022"," ","U+1F4D0"," ","2","1","6","0","U+00D7","3","8","4","0">>
  }

\* the keywords of get_principle_markers_for_title in mixed case, a variant
\* keyword and the word of the master exclusion
NameWords ==
  {
    <<"S","e","l","e","c","t","s">>,
    <<"s","t","r","i","n","g","o","u","t">>,
    <<"S","h","o","t","F","X">>,
    <<"S","h","o","t"," ","F","X">>,
    <<"S","E","G","M","E","N","T">>,
    <<"I","n","t","e","r","v","i","e","w">>,
    <<"L","O","O","K">>,
    <<"c","h","a","p","t","e","r">>,
    <<"S","e","c","t","i","o","n">>,
    <<"M","a","s","t","e","r">>,
    <<"C","l","o","n","e">>,
    <<"B","-","R","o","l","l">>
  }

RECURSIVE JoinWords(_)
JoinWords(ws) ==
  IF ws = <<>> THEN <<>>
  ELSE IF Len(ws) = 1 THEN ws[1]
  ELSE ws[1] \o <<" ">> \o JoinWords(Tail(ws))

GeneratedNames ==
  {JoinWords(ws) : ws \in UNION {[1..n -> NameWords] : n \in 0..MaxWords}}

DeclaredTitles ==
  {Program[i].title : i \in {j \in 1..Len(Program) : Program[j].op = "timeline"}}

Lanes == DOMAIN LANE_MARKERS

\* a label with a pacing rule on a marker without a note, on a marker whose
\* note ends in white space and on one whose note is white space, next to a
\* label without a rule
NotePacks ==
  {LET label == CHOOSE n \in DOMAIN PACING_S[l]["12s"] : TRUE
   IN  <<mm(0, "Red", label, 0, ""),
         [mm(1000, "Blue", label, 0, "cue") EXCEPT !.notes = <<"cue", " ">>],
         [mm(2000, "Blue", label, 0, " ") EXCEPT !.notes = <<" ", "\n">>],
         mm(3000, "Blue", "m", 0, "cue")>> : l \in Lanes}

InitNames ==
  /\ \/ /\ the_title \in GeneratedNames \cup TestNames \cup DeclaredTitles
        /\ the_pack = <<>>
     \/ /\ the_title = <<>>
        /\ \E p \in DeclaredPacks \cup NotePacks : the_pack = <<p>>
  /\ the_enriched = <<>>
  /\ in_pack = <<>> /\ hist = <<>> /\ out_frames = <<>> /\ out_durs = <<>>
  /\ out_calls = <<>>
  /\ manifest = <<>> /\ report = <<>>
  /\ folders = FreshProject.folders /\ tls = FreshProject.tls
  /\ StockSettings
  /\ newTracks = 1
  /\ api = StockBuild
  /\ curFolder = Root /\ curTimeline = 0 /\ clips = 0
  /\ start = [folders |-> folders, tls |-> tls, settings |-> settings]
  /\ InitDriver
  /\ ~force_env

\* pack = get_principle_markers_for_title(title)
Classify ==
  /\ the_pack = <<>>
  /\ the_pack' = <<get_principle_markers_for_title(the_title)>>
  /\ UNCHANGED <<hostVars, driverVars, in_pack, hist, out_frames, out_durs, out_calls,
                 the_title,
                 the_enriched, manifest, report>>

\* enriched = _enrich_marker_notes(pack, lane, tier) on a pack of the catalog
EnrichNotes ==
  /\ the_title = <<>>
  /\ the_pack # <<>>
  /\ the_enriched = <<>>
  /\ \E lane \in Lanes \cup {Null}, tier \in LaneTiers \cup {"selects", Null} :
       the_enriched' =
         <<[lane |-> lane, tier |-> tier,
            src |-> enrich_marker_notes_input(the_pack[1], lane, tier),
            out |-> enrich_marker_notes(the_pack[1], lane, tier)]>>
  /\ UNCHANGED <<hostVars, driverVars, in_pack, hist, out_frames, out_durs, out_calls,
                 the_title,
                 the_pack, manifest, report>>

NextNames ==
  \/ Classify
  \/ EnrichNotes

SpecNames == InitNames /\ [][NextNames]_vars


-----------------------------------------------------------------------------
(* The markers manifest: export_markers_manifest.py and                    *)
(* verify_markers_manifest.py.  A manifest is [origin, timelines], each    *)
(* timeline entry [name, markers], markers the list of normalized markers. *)
(* The fields timecode, custom_data and flags are left out: the host of    *)
(* the model has no custom data and no flags on a marker (both are None    *)
(* on either side), and verification never compares the timecode.  The    *)
(* manifest is written and read back as JSON; its values are integers,     *)
(* strings and lists, which JSON gives back as they were.                  *)

\* _normalize_marker_payload(frame_id, payload, timecode)
normalize_marker_payload(frame_id, payload) ==
  [frame_id |-> frame_id, name |-> payload.name, note |-> payload.note,
   color |-> payload.color, duration |-> payload.dur]

\* sorted(marker_map.keys())
RECURSIVE Ascending(_)
Ascending(S) ==
  IF S = {} THEN <<>>
  ELSE LET least == CHOOSE x \in S : \A y \in S : x <= y
       IN  <<least>> \o Ascending(S \ {least})

\* timeline.GetMarkers(): the payload on a frame
MarkerAt(tl, frame_id) == CHOOSE m \in tl.markers : m.frame = frame_id

\* the list "timelines" of _collect_timeline_data(project)
collect_timeline_data(ts) ==
  [i \in 1..Len(ts) |->
     LET keys == Ascending({m.frame : m \in ts[i].markers})
     IN  [name |-> ts[i].name,
          markers |-> [k \in 1..Len(keys) |->
                         normalize_marker_payload(keys[k],
                                                  MarkerAt(ts[i], keys[k]))]]]

\* the manifest export_manifest writes
export_manifest(ts) ==
  [origin |-> "export", timelines |-> collect_timeline_data(ts)]

\* _prepare_actual_markers(timeline): frame -> list of normalized markers
prepare_actual_markers(tl) ==
  [f \in {m.frame : m \in tl.markers} |->
     <<normalize_marker_payload(f, MarkerAt(tl, f))>>]

\* returns [found, match, index]: the first candidate frame with a marker
\* left, that marker, and the index without it
pop_match(actual_index, expected_frame, tolerance) ==
  LET \* candidates: the frame itself, then one frame earlier, one later,
      \* two earlier, two later, ...
      c == <<expected_frame>>
           \o Flatten([delta \in 1..tolerance |->
                         <<expected_frame - delta, expected_frame + delta>>])
      hits == {k \in 1..Len(c) :
                 c[k] \in DOMAIN actual_index /\ actual_index[c[k]] # <<>>}
      first == CHOOSE k \in hits : \A h \in hits : k <= h
  IN  IF hits = {}
        THEN [found |-> FALSE, match |-> <<>>, index |-> actual_index]
        ELSE [found |-> TRUE, match |-> <<Head(actual_index[c[first]])>>,
              index |-> [actual_index EXCEPT ![c[first]] = Tail(@)]]

\* the warnings of the loop over the fields of one matched marker
FieldWarnings(marker, match) ==
  LET fields == <<"name", "note", "color", "duration">>
  IN  SelectSeq([k \in 1..Len(fields) |->
                   IF marker[fields[k]] # match[fields[k]]
                     THEN "Value mismatch" ELSE ""],
                LAMBDA w : w # "")

\* the loop "for marker in expected_markers" of _compare_markers, from index
\* i on; acc = [index, warnings, errors]
RECURSIVE CompareFrom(_, _, _, _)
CompareFrom(acc, expected_markers, i, tolerance) ==
  IF i > Len(expected_markers) THEN acc
  ELSE LET marker == expected_markers[i]
           p == pop_match(acc.index, marker.frame_id, tolerance)
           drift == IF p.match[1].frame_id # marker.frame_id
                      THEN <<"Frame drift">> ELSE <<>>
       IN  IF ~p.found
             THEN CompareFrom([acc EXCEPT !.errors = Append(@, "Missing marker")],
                              expected_markers, i + 1, tolerance)
             ELSE CompareFrom(
                    [index |-> p.index,
                     warnings |-> acc.warnings \o drift
                                    \o FieldWarnings(marker, p.match[1]),
                     errors |-> acc.errors],
                    expected_markers, i + 1, tolerance)

\* returns [timeline, status, warnings, errors]
compare_markers(timeline_name, expected_markers, actual_index, tolerance) ==
  LET r == CompareFrom([index |-> actual_index, warnings |-> <<>>,
                        errors |-> <<>>],
                       expected_markers, 1, tolerance)
      \* sum(len(markers) for markers in actual_index.values()); a frame
      \* holds one marker at most
      remaining_extra == Cardinality({f \in DOMAIN r.index : r.index[f] # <<>>})
      warnings == IF remaining_extra > 0
                    THEN Append(r.warnings, "additional markers")
                    ELSE r.warnings
  IN  [timeline |-> timeline_name,
       status |-> IF r.errors # <<>> THEN "error"
                  ELSE IF warnings # <<>> THEN "warning" ELSE "ok",
       warnings |-> warnings, errors |-> r.errors]

\* lookup = {tl.GetName(): tl for ...}: of two timelines with one name the
\* later one stays
Lookup(ts, name) ==
  LET idx == {i \in 1..Len(ts) : ts[i].name = name}
  IN  IF idx = {} THEN 0 ELSE CHOOSE i \in idx : \A j \in idx : j <= i

RECURSIVE SumLen(_)
SumLen(ss) == IF ss = <<>> THEN 0 ELSE Len(Head(ss)) + SumLen(Tail(ss))

\* returns the report [details, errors, warnings, frame_tolerance]
verify_manifest(mf, ts, frame_tolerance) ==
  LET details ==
        [k \in 1..Len(mf.timelines) |->
           LET entry == mf.timelines[k]
               i == Lookup(ts, entry.name)
           IN  IF i = 0
                 THEN [timeline |-> entry.name, status |-> "error",
                       warnings |-> <<>>,
                       errors |-> <<"Timeline not found in project.">>]
                 ELSE compare_markers(entry.name, entry.markers,
                                      prepare_actual_markers(ts[i]),
                                      frame_tolerance)]
  IN  [details |-> details,
       errors |-> SumLen([k \in 1..Len(details) |-> details[k].errors]),
       warnings |-> SumLen([k \in 1..Len(details) |-> details[k].warnings]),
       frame_tolerance |-> frame_tolerance]

\* main() of verify_markers_manifest.py: sys.exit(1), sys.exit(2), sys.exit(0)
VerifyExitCode(rep) ==
  IF rep.errors > 0 THEN 1 ELSE IF rep.warnings > 0 THEN 2 ELSE 0

-----------------------------------------------------------------------------
(* The manifest tools against small projects                               *)

MarkerNames == {"a", "b"}

HostMarker(f, n) ==
  [frame |-> f, color |-> "Blue", name |-> n, note |-> <<"">>, dur |-> 1]

\* the marker sets a timeline can hold: at most one marker per frame
MarkerSets ==
  UNION {{{HostMarker(f, g[f]) : f \in F} : g \in [F -> MarkerNames]} :
           F \in SUBSET (0..MaxFrame)}

\* projects of one timeline, two timelines, two timelines of one name
ManifestProjects ==
  LET names == {<< <<"A">> >>, << <<"A">>, <<"B">> >>, << <<"A">>, <<"A">> >>}
  IN
  UNION {{[i \in 1..Len(nl) |->
             [HostNewTimeline(nl[i], Root, 1) EXCEPT !.markers = ms[i]]] :
            ms \in [1..Len(nl) -> MarkerSets]} :
           nl \in names}

\* manifests from elsewhere (an earlier state of the project, another
\* project, an edited file): one timeline, markers in any order
FileManifests ==
  LET expected == {normalize_marker_payload(f, HostMarker(f, n)) :
                     f \in 0..MaxFrame, n \in MarkerNames}
  IN
  {[origin |-> "file",
    timelines |-> <<[name |-> <<"A">>, markers |-> ms]>>] :
     ms \in UNION {[1..n -> expected] : n \in 1..MaxExpected}}

InitManifest ==
  /\ tls \in ManifestProjects
  /\ \/ manifest = <<>>
     \/ Len(tls) = 1 /\ \E mf \in FileManifests : manifest = <<mf>>
  /\ report = <<>>
  /\ in_pack = <<>> /\ hist = <<>> /\ out_frames = <<>> /\ out_durs = <<>>
  /\ out_calls = <<>>
  /\ InitNamesIdle
  /\ folders = FreshProject.folders
  /\ StockSettings
  /\ newTracks = 1
  /\ api = StockBuild
  /\ curFolder = Root /\ curTimeline = 0 /\ clips = 0
  /\ start = [folders |-> folders, tls |-> tls, settings |-> settings]
  /\ InitDriver
  /\ ~force_env

\* export_markers_manifest.py: export_manifest(output_path)
ExportManifest ==
  /\ manifest = <<>>
  /\ manifest' = <<export_manifest(tls)>>
  /\ UNCHANGED <<hostVars, driverVars, in_pack, hist, out_frames, out_durs,
                 out_calls, the_title, the_pack, the_enriched, report>>

\* verify_markers_manifest.py: verify_manifest(manifest_path, report_path,
\* frame_tolerance)
VerifyManifest ==
  /\ manifest # <<>>
  /\ report = <<>>
  /\ \E frame_tolerance \in 0..MaxTolerance :
       report' = <<verify_manifest(manifest[1], tls, frame_tolerance)>>
  /\ UNCHANGED <<hostVars, driverVars, in_pack, hist, out_frames, out_durs,
                 out_calls, the_title, the_pack, the_enriched, manifest>>

NextManifest ==
  \/ ExportManifest
  \/ VerifyManifest

SpecManifest == InitManifest /\ [][NextManifest]_vars
-----------------------------------------------------------------------------
(* Properties of the builder                                               *)

CreationCalls ==
  {"MediaPool.AddSubFolder", "Folder.AddSubFolder", "CreateEmptyTimeline",
   "AddTrack(video)", "AddTrack(audio)", "AddTrack(subtitle)",
   "AddMarker/6", "AddMarker/5", "ImportMedia", "AppendToTimeline"}

ExistenceChecks ==
  {"GetProjectManager", "GetCurrentProject", "GetMediaPool", "GetRootFolder",
   "GetName", "GetSubFolders", "GetTimelines", "GetTimelineCount",
   "GetTimelineByIndex", "GetTrackCount", "GetMarkers", "GetItemListInTrack"}

TrackRenames == {"SetTrackName"}

DeleteCalls ==
  {"DeleteFolders", "DeleteTimelines", "DeleteTrack", "DeleteMarkerAtFrame",
   "DeleteMarkersByColor", "DeleteClips"}

\* 'Money Master [U+2014] 12s (IG short) [U+2014] 2160[U+00D7]3840 [U+2022] 29.97p'
MoneyMaster12 ==
  <<"M","o","n","e","y"," ","M","a","s","t","e","r"," ","U+2014"," ",
    "1","2","s"," ","(","I","G"," ","s","h","o","r","t",")"," ","U+2014"," ",
    "2","1","6","0","U+00D7","3","8","4","0"," ","U+2022"," ",
    "2","9",".","9","7","p">>

Named(ts, title) == {i \in 1..Len(ts) : ts[i].name = title}

MarkerCounts(ts) == [i \in 1..Len(ts) |-> Cardinality(ts[i].markers)]

\* the driver is inside (or at the end of) a re-run with the force flag off,
\* on a host whose first run could build everything
InRerun ==
  /\ run >= 2
  /\ ~force_env
  /\ Cooperative(api)
  /\ pc.phase # "start"

RerunCreatesNothing ==
  /\ calls \cap CreationCalls = {}
  /\ folders = start.folders
  /\ MarkerCounts(tls) = MarkerCounts(start.tls)
  /\ \A i \in Named(start.tls, MoneyMaster12) :
       Cardinality(start.tls[i].markers) = 6 => Cardinality(tls[i].markers) = 6

\* C1, as stated: a re-run with the force flag off issues no creation call,
\* leaves every marker count as it was, and issues nothing but existence
\* checks and track renames.
C1_OnlyChecksAndRenames ==
  InRerun =>
    /\ RerunCreatesNothing
    /\ calls \subseteq ExistenceChecks \cup TrackRenames

\* C1, amended: a re-run with the force flag off issues no creation call and
\* leaves every marker count as it was (6 on the 12s Money Master); besides
\* existence checks and track renames it selects each principle timeline as
\* the current timeline and saves the project.
C1_RerunIdempotent ==
  InRerun =>
    /\ RerunCreatesNothing
    /\ calls \subseteq ExistenceChecks \cup TrackRenames
                         \cup {"SetCurrentTimeline", "Save"}

C1_Witness ==
  /\ InRerun
  /\ pc.phase = "done"
  /\ \E i \in Named(tls, MoneyMaster12) : Cardinality(tls[i].markers) = 6
  /\ "SetTrackName" \in calls
  /\ "SetCurrentTimeline" \in calls

-----------------------------------------------------------------------------

\* the add_markers_to_timeline_if_empty calls of the last step, as records
LastSeeds == {last.seeds[k] : k \in 1..Len(last.seeds)}

\* the pack the last step handed to add_markers_to_timeline_if_empty
LastPack ==
  IF last.op = "timeline" THEN Program[last.task].markers
  ELSE PacedPrinciplePack(<<>>, tls[last.idx].name)

\* C2: a call of add_markers_to_timeline_if_empty that finds markers on the
\* timeline and has force off returns 0, issues no AddMarker call and leaves
\* the markers alone; and calling it once more with force off on the timeline
\* it has just seeded changes nothing.
C2_SeedOnlyWhenEmpty ==
  /\ \A s \in LastSeeds :
       (s.existing > 0 /\ ~s.force) => (s.added = 0 /\ s.adds = 0 /\ s.same)
  /\ (last.seeds # <<>> /\ last.idx > 0) =>
       LET tl == tls[last.idx]
           again == add_markers_to_timeline_if_empty(tl, FPS, LastPack, FALSE, api)
       IN  /\ again.tl = tl
           /\ count_markers(tl) > 0 => (again.added = 0 /\ AddCalls(again.trace) = 0)

C2_Witness ==
  /\ last.op = "seed"
  /\ \E s \in LastSeeds : s.existing > 0 /\ ~s.force /\ s.added = 0
  /\ \E i \in 1..Len(start.tls) : start.tls[i].markers = {} /\ tls[i].markers # {}

-----------------------------------------------------------------------------

\* C3: at every point of a run the host holds every folder, timeline, track
\* and marker it held when the run started (tracks may have been renamed), and
\* no delete or remove call has been issued.
C3_NonDestructive ==
  /\ start.folders \subseteq folders
  /\ Len(start.tls) <= Len(tls)
  /\ \A i \in 1..Len(start.tls) :
       /\ tls[i].name = start.tls[i].name
       /\ tls[i].folder = start.tls[i].folder
       /\ Len(start.tls[i].video) <= Len(tls[i].video)
       /\ Len(start.tls[i].audio) <= Len(tls[i].audio)
       /\ Len(start.tls[i].subtitle) <= Len(tls[i].subtitle)
       /\ start.tls[i].markers \subseteq tls[i].markers
       /\ start.tls[i].items <= tls[i].items
  /\ calls \cap DeleteCalls = {}

C3_Witness ==
  /\ pc.phase = "done"
  /\ force_env
  /\ \E i \in 1..Len(start.tls) :
       /\ Len(start.tls[i].video) > Len(VIDEO_TRACKS_TOP_TO_BOTTOM)
       /\ tls[i].video # start.tls[i].video
       /\ start.tls[i].markers # {}
  /\ Len(tls) > Len(start.tls)
  /\ folders # start.folders

-----------------------------------------------------------------------------

Count(trace, call) == Cardinality({k \in 1..Len(trace) : trace[k] = call})

\* what ensure_tracks_named(kind, declared) made of the tracks `was`: `now`
TracksGrownOnly(was, now, declared, adds) ==
  /\ adds = Max(0, Len(declared) - Len(was))
  /\ Len(now) = Max(Len(was), Len(declared))
  /\ \A j \in 1..Len(declared) : now[j] = declared[j]
  /\ \A j \in (Len(declared) + 1)..Len(was) : now[j] = was[j]

-----------------------------------------------------------------------------

\* the timeline tasks whose title an earlier task of the catalog declares too
DuplicateTasks ==
  {i \in 1..Len(Program) :
     /\ Program[i].op = "timeline"
     /\ \E j \in 1..(i - 1) :
          Program[j].op = "timeline" /\ Program[j].title = Program[i].title}

\* 'B-Roll Selects [U+2014] Studio', declared under two pillars
BRollStudio ==
  <<"B","-","R","o","l","l"," ","S","e","l","e","c","t","s"," ","U+2014"," ",
    "S","t","u","d","i","o">>

TimelineTasksUpTo(n) ==
  Cardinality({i \in 1..n : Program[i].op = "timeline"})

\* the timelines the host held before the last step
HeldBefore == IF last.created THEN Len(tls) - 1 ELSE Len(tls)

-----------------------------------------------------------------------------

\* C6: the six project settings are, after any timeline creation, what they
\* were found to be (an unset or unreadable setting included).
C6_SettingsAsFound == settings = start.settings

-----------------------------------------------------------------------------

FrameColors(tl) == {<<m.frame, m.color>> : m \in tl.markers}

\* C9: one run on a fresh project (empty root folder) leaves exactly one
\* timeline named 'Money Master - 12s (IG short) - 2160x3840 - 29.97p', with
\* exactly 6 markers: frames 0, 90, 135, 240, 270, 348 in the colors Red,
\* Orange, Pink, Green, Pink, Yellow.
C9_MoneyMaster12Seeded ==
  (/\ run = 1
   /\ pc.phase = "done"
   /\ Cooperative(api)
   /\ start.tls = <<>>
   /\ start.folders = {Root}) =>
    /\ Cardinality(Named(tls, MoneyMaster12)) = 1
    /\ \A i \in Named(tls, MoneyMaster12) :
         /\ Cardinality(tls[i].markers) = 6
         /\ FrameColors(tls[i]) =
              {<<0, "Red">>, <<90, "Orange">>, <<135, "Pink">>,
               <<240, "Green">>, <<270, "Pink">>, <<348, "Yellow">>}
         /\ tls[i].folder = <<MoneyBin>>

C9_Witness ==
  /\ run = 1
  /\ pc.phase = "done"
  /\ Cooperative(api)
  /\ start.tls = <<>>
  /\ start.folders = {Root}
  /\ \E i \in Named(tls, MoneyMaster12) :
       {m.frame : m \in tls[i].markers} = {0, 90, 135, 240, 270, 348}

-----------------------------------------------------------------------------

\* the pack as _butt_join_markers sees it: sorted by offset
InOrder == SortedByT(in_pack, FALSE)

\* the positive gap a marker with a duration leaves before its successor,
\* else 0
GapAfter(ms, i) ==
  IF ms[i].dur > 0 /\ ms[i + 1].t - (ms[i].t + ms[i].dur) > 0
    THEN ms[i + 1].t - (ms[i].t + ms[i].dur)
    ELSE 0

NoGapOverOneFrame(ms) ==
  \A i \in 1..(Len(ms) - 1) : GapAfter(ms, i) <= FrameTicks(FPS)

-----------------------------------------------------------------------------

EndOf(m) == m.t + m.dur

NoOverlap(ms) == \A i \in 1..(Len(ms) - 1) : EndOf(ms[i]) <= ms[i + 1].t

-----------------------------------------------------------------------------

Abs(x) == IF x < 0 THEN -x ELSE x

\* C10: _sec_to_frames gives the integer nearest to offset x fps; the offsets
\* 0, 3, 4.5, 8, 9, 11.6 s of the 12s money pack give the frames 0, 90, 135,
\* 240, 270, 348; two different offsets of one declared pack never give the
\* same frame.
C10_NearestFrame ==
  /\ \A i \in 1..Len(out_frames) :
       2 * Abs(out_frames[i] * FrameTicks(FPS) - in_pack[i].t) <= FrameTicks(FPS)
  /\ in_pack = MARKERS_12 =>
       /\ [i \in 1..Len(in_pack) |-> in_pack[i].t] =
            <<0, 3000 * TicksPerMs, 4500 * TicksPerMs, 8000 * TicksPerMs,
              9000 * TicksPerMs, 11600 * TicksPerMs>>
       /\ out_frames = SubSeq(<<0, 90, 135, 240, 270, 348>>, 1, Len(out_frames))
  /\ in_pack \in DeclaredPacks =>
       \A i, j \in 1..Len(out_frames) :
         in_pack[i].t # in_pack[j].t => out_frames[i] # out_frames[j]

C10_Witness ==
  /\ in_pack = MARKERS_12
  /\ out_frames = <<0, 90, 135, 240, 270, 348>>


-----------------------------------------------------------------------------

\* the keyword order of the classification, each keyword group with the pack
\* it selects; open packs are followed by the tips of a variant
KeywordOrder ==
  <<[words |-> {<<"s","e","l","e","c","t","s">>, <<"s","t","r","i","n","g","o","u","t">>},
     base |-> SELECTS_BASE,
     tips |-> {<<>>} \cup {SELECTS_SPECIFIC[k] : k \in DOMAIN SELECTS_SPECIFIC}],
    [words |-> {<<"s","h","o","t","f","x">>, <<"s","h","o","t"," ","f","x">>},
     base |-> PRINCIPLE_PACKS["shotfx"],
     tips |-> {<<>>} \cup {SHOTFX_SPECIFIC[k] : k \in DOMAIN SHOTFX_SPECIFIC}],
    [words |-> {<<"s","e","g","m","e","n","t">>},
     base |-> PRINCIPLE_PACKS["scenes_segments"], tips |-> {<<>>}],
    [words |-> {<<"i","n","t","e","r","v","i","e","w">>},
     base |-> PRINCIPLE_PACKS["talking_head"], tips |-> {<<>>}],
    [words |-> {<<"l","o","o","k">>},
     base |-> PRINCIPLE_PACKS["fashion"], tips |-> {<<>>}],
    [words |-> {<<"c","h","a","p","t","e","r">>},
     base |-> PRINCIPLE_PACKS["day_in_the_life"], tips |-> {<<>>}],
    [words |-> {<<"s","e","c","t","i","o","n">>},
     base |-> PRINCIPLE_PACKS["cook_ups"], tips |-> {<<>>}]>>

\* the keyword groups that occur in a name, ignoring case
Hits(name) ==
  {k \in 1..Len(KeywordOrder) :
     \E w \in KeywordOrder[k].words : Contains(Lower(name), w)}

FirstHit(name) == CHOOSE k \in Hits(name) : \A j \in Hits(name) : k <= j

HasMasterWord(name) == Contains(Lower(name), <<"m","a","s","t","e","r">>)

Classified == the_title # <<>> /\ the_pack # <<>>

\* C11: a name without "master" resolves to the pack of the first keyword
\* group, in the order selects/stringout, shotfx/shot fx, segment, interview,
\* look, chapter, section, that occurs in it in any letter case, and to the
\* empty pack when none occurs; the selects and shotfx packs are their base
\* pack followed by the tips of a variant, those of the clone variant when a
\* shotfx name says "clone".
C11_FirstMatchWins ==
  (Classified /\ ~HasMasterWord(the_title)) =>
     IF Hits(the_title) = {} THEN the_pack[1] = <<>>
     ELSE /\ \E tips \in KeywordOrder[FirstHit(the_title)].tips :
               the_pack[1] = KeywordOrder[FirstHit(the_title)].base \o tips
          /\ (FirstHit(the_title) = 2
                /\ Contains(Lower(the_title), <<"c","l","o","n","e">>))
               => the_pack[1] =
                    PRINCIPLE_PACKS["shotfx"] \o SHOTFX_SPECIFIC["clone"]

C11_Witness ==
  /\ Classified
  /\ ~HasMasterWord(the_title)
  /\ Hits(the_title) = {2, 7}
  /\ the_pack[1] = PRINCIPLE_PACKS["shotfx"]

-----------------------------------------------------------------------------

\* C12: a name that contains "master" in any letter case resolves to the
\* empty pack.
C12_MasterNamesExcluded ==
  (Classified /\ HasMasterWord(the_title)) => the_pack[1] = <<>>

-----------------------------------------------------------------------------

\* the calls by which main() reaches the project and its media pool
ConnectCalls ==
  {"GetProjectManager", "GetCurrentProject", "GetName", "GetMediaPool",
   "GetRootFolder"}

HostAsFound ==
  /\ folders = start.folders
  /\ tls = start.tls
  /\ settings = start.settings
  /\ clips = 0

\* C13: a run that reaches its summary exits with 0 when no error was
\* recorded and with 1 when one was; a run that finds no host, no open project
\* or no root folder exits with 1, having issued only the calls that look for
\* them and having changed nothing in the host.
C13_ExitCode ==
  /\ (pc.phase = "done" /\ last.op = "summary") =>
       /\ Len(stats.errors) = 0 => ExitCode = 0
       /\ Len(stats.errors) > 0 => ExitCode = 1
  /\ (run = 1 /\ pc.phase # "start" /\ api.conn # "ok") =>
       /\ pc.phase \in {"done", "exit"}
       /\ ExitCode = 1
       /\ calls \subseteq ConnectCalls
       /\ HostAsFound

C13_Witness ==
  /\ pc.phase = "done"
  /\ last.op = "summary"
  /\ Len(stats.errors) > 0
  /\ ExitCode = 1

-----------------------------------------------------------------------------

DeclaredTimelineEntries ==
  Cardinality({i \in 1..Len(Program) : Program[i].op = "timeline"})

\* C14: on a connected host no exception leaves main(); at the end of the run
\* the project was saved, created + failed + skipped timelines add up to the
\* declared timeline entries, and the project-wide pass went through every
\* timeline.
C14_RunAlwaysCompletes ==
  api.conn = "ok" =>
    /\ pc.phase # "aborted"
    /\ pc.phase = "done" =>
         /\ "Save" \in calls
         /\ stats.timelines_created + stats.timelines_failed
              + stats.timelines_skipped = DeclaredTimelineEntries
         /\ seed_cnt = Len(tls)

-----------------------------------------------------------------------------

\* markers of a seeding that the host took none of the calls for
Rejected(s) == Len(s.durs) - s.added

\* C15: after a seeding in which the host rejected markers, the error list
\* holds an entry for each of them, and every marker of the pack was tried.
C15_RejectedMarkersRecorded ==
  \A s \in LastSeeds :
    Rejected(s) > 0 =>
      /\ Len(stats.errors) >= Rejected(s)
      /\ Len(s.durs) = Len(LastPack)

-----------------------------------------------------------------------------

\* the folder main() handed to the last folder or timeline call as its parent
LastParent == FolderOf(Program[last.task].parent)

\* C16: a folder or timeline call of main() whose parent folder is missing
\* issues no folder creation call and no timeline creation call to the host.
C16_FailedBranchSkipped ==
  (last.op \in {"folder", "timeline"} /\ LastParent = NoFolder) =>
     Range(last.trace) \cap {"MediaPool.AddSubFolder", "Folder.AddSubFolder",
                              "CreateEmptyTimeline"} = {}

-----------------------------------------------------------------------------

\* C17: every AddMarker call that places a pack carries a duration of at
\* least one frame, whatever duration the marker was declared with.
C17_DurationAtLeastOneFrame ==
  /\ out_durs # <<>> => Len(out_durs) = Len(in_pack)
  /\ \A i \in 1..Len(out_durs) : out_durs[i] >= 1

C17_Witness ==
  /\ out_durs # <<>>
  /\ \E i \in 1..Len(in_pack) : in_pack[i].dur = 0
  /\ \E i \in 1..Len(in_pack) :
       in_pack[i].dur > 0 /\ sec_to_frames(in_pack[i].dur, FPS) = 0

-----------------------------------------------------------------------------

\* the pacing directive of a label under (lane, tier), "" when there is none
Tip(lane, tier, label) ==
  IF lane \in DOMAIN PACING_S
    THEN IF tier \in DOMAIN PACING_S[lane]
           THEN IF label \in DOMAIN PACING_S[lane][tier]
                  THEN PACING_S[lane][tier][label]
                  ELSE ""
           ELSE ""
    ELSE ""

\* the text of a note: its pieces without the empty ones
Text(notes) == LET Shown(piece) == piece # "" IN SelectSeq(notes, Shown)

\* the directive as it is written behind a note and as it stands alone
Directive(tip) == {<<"\n[U+2014] Cuts: ", tip>>, <<"Cuts: ", tip>>}

Enriched == the_pack # <<>> /\ the_enriched # <<>>

\* what the claim says of every pack: same length and order, every field but
\* the note unchanged, the note unchanged without a rule, the input unchanged
SameButNotes(e, p) ==
  /\ e.src = p
  /\ Len(e.out) = Len(p)
  /\ \A i \in 1..Len(p) :
       /\ [e.out[i] EXCEPT !.notes = p[i].notes] = p[i]
       /\ Tip(e.lane, e.tier, p[i].name) = "" => e.out[i].notes = p[i].notes

\* C18 as stated: enrichment keeps length, order and every field but the note,
\* leaves the note of a label without a rule alone, does not change its input,
\* and writes the directive behind the original note of a label with a rule.
C18_DirectiveAppendedToNote ==
  Enriched =>
    /\ SameButNotes(the_enriched[1], the_pack[1])
    /\ \A i \in 1..Len(the_pack[1]) :
         Tip(the_enriched[1].lane, the_enriched[1].tier, the_pack[1][i].name) # ""
           => \E d \in Directive(Tip(the_enriched[1].lane, the_enriched[1].tier,
                                     the_pack[1][i].name)) :
                Text(the_enriched[1].out[i].notes) = Text(the_pack[1][i].notes) \o d

\* C18 amended: as above, with the directive behind the original note less
\* its trailing white space; a note of white space only becomes the directive.
C18_DirectiveAppendedToStrippedNote ==
  Enriched =>
    /\ SameButNotes(the_enriched[1], the_pack[1])
    /\ \A i \in 1..Len(the_pack[1]) :
         Tip(the_enriched[1].lane, the_enriched[1].tier, the_pack[1][i].name) # ""
           => \E k \in 0..Len(the_pack[1][i].notes) :
                /\ \A j \in (k + 1)..Len(the_pack[1][i].notes) :
                     the_pack[1][i].notes[j] \in {"", " ", "\n", "\t"}
                /\ k > 0 => the_pack[1][i].notes[k] \notin {"", " ", "\n", "\t"}
                /\ \E d \in Directive(Tip(the_enriched[1].lane,
                                          the_enriched[1].tier,
                                          the_pack[1][i].name)) :
                     the_enriched[1].out[i].notes =
                       SubSeq(the_pack[1][i].notes, 1, k) \o d

C18_Witness ==
  /\ Enriched
  /\ \E i, j \in 1..Len(the_pack[1]) :
       /\ Tip(the_enriched[1].lane, the_enriched[1].tier, the_pack[1][i].name) # ""
       /\ the_pack[1][i].notes = <<"cue", " ">>
       /\ the_enriched[1].out[i].notes # the_pack[1][i].notes
       /\ Tip(the_enriched[1].lane, the_enriched[1].tier, the_pack[1][j].name) = ""
       /\ the_enriched[1].out[j].notes = the_pack[1][j].notes

-----------------------------------------------------------------------------

\* a marker whose note ends in a pacing directive
Paced(m) ==
  \E k \in 1..Len(m.notes) : m.notes[k] \in {"\n[U+2014] Cuts: ", "Cuts: "}

\* C19: the pack main() hands to the creation of a lane master or of a
\* principle timeline has at least one marker with a pacing directive.
C19_EveryDeclaredPackPaced ==
  (last.op = "timeline" /\ Program[last.task].markers # <<>>) =>
     \E i \in 1..Len(Program[last.task].markers) :
        Paced(Program[last.task].markers[i])

-----------------------------------------------------------------------------

\* C20: on every timeline the driver makes or finds, video track j (counted
\* from the bottom, from 1) carries the declared label number n + 1 - j of the
\* n labels declared top to bottom, audio track j carries the declared label
\* number j, tracks beyond the declared ones keep their names, and one
\* rename is issued per declared label (and one for a new subtitle track).
C20_TrackLabelOrder ==
  (last.op = "timeline" /\ last.idx > 0) =>
    LET tl == tls[last.idx]
        nv == Len(VIDEO_TRACKS_TOP_TO_BOTTOM)
        na == Len(AUDIO_TRACKS)
    IN  /\ \A j \in 1..nv : tl.video[j] = VIDEO_TRACKS_TOP_TO_BOTTOM[nv + 1 - j]
        /\ \A j \in (nv + 1)..Len(tl.video) : tl.video[j] = last.before.video[j]
        /\ \A j \in 1..na : tl.audio[j] = AUDIO_TRACKS[j]
        /\ \A j \in (na + 1)..Len(tl.audio) : tl.audio[j] = last.before.audio[j]
        /\ Count(last.trace, "SetTrackName") =
             nv + na + Count(last.trace, "AddTrack(subtitle)")

C20_Witness ==
  /\ last.op = "timeline"
  /\ last.idx > 0
  /\ Len(last.before.video) > Len(VIDEO_TRACKS_TOP_TO_BOTTOM)
  /\ tls[last.idx].video[1] =
       VIDEO_TRACKS_TOP_TO_BOTTOM[Len(VIDEO_TRACKS_TOP_TO_BOTTOM)]
  /\ tls[last.idx].video # last.before.video
  /\ tls[last.idx].audio[1] = AUDIO_TRACKS[1]

-----------------------------------------------------------------------------

\* a marker without its duration
Undated(m) == [t |-> m.t, color |-> m.color, name |-> m.name, notes |-> m.notes]

\* the gap between the end of marker i and the offset of its successor
GapTo(ms, i) == ms[i + 1].t - (ms[i].t + ms[i].dur)

\* the duration the rule of butt-join gives marker i of a pack in offset order
JoinedDur(ms, i) ==
  IF i < Len(ms) /\ ms[i].dur > 0 /\ GapTo(ms, i) > 0
    THEN ms[i].dur + Min(GapTo(ms, i), FrameTicks(FPS))
    ELSE ms[i].dur

-----------------------------------------------------------------------------

\* the gap marker i of a pack leaves before its successor is positive and
\* smaller than one frame
HairlineGap(ms, i) ==
  ms[i].dur > 0 /\ GapTo(ms, i) > 0 /\ GapTo(ms, i) < FrameTicks(FPS)

-----------------------------------------------------------------------------

\* the declared timelines main() hands a marker pack
SeededTasks ==
  {k \in 1..Len(Program) :
     Program[k].op = "timeline" /\ Program[k].markers # <<>>}

\* the first placement on the timeline of this step found no marker on it
\* and got none accepted
PlacementFailed ==
  /\ last.op \in {"timeline", "seed"}
  /\ last.idx > 0
  /\ last.seeds # <<>>
  /\ last.seeds[1].existing = 0
  /\ last.seeds[1].adds > 0
  /\ last.seeds[1].added = 0

\* C23: where the placement on a timeline fails in the project-wide pass, the
\* silent clip is imported once and appended and the pack is retried with
\* force; no step imports more than one clip; and at the end of a run every
\* declared timeline with a pack (lane master or principle timeline) has had
\* the workaround where it needed it, so it carries markers.
C23_ZeroDurationWorkaround ==
  /\ (PlacementFailed /\ last.op = "seed") =>
       /\ Count(last.trace, "ImportMedia") = 1
       /\ Count(last.trace, "AppendToTimeline") = 1
       /\ Len(last.seeds) = 2
       /\ last.seeds[2].force
  /\ Count(last.trace, "ImportMedia") <= 1
  /\ (pc.phase = "done" /\ last.op = "summary") =>
       \A k \in SeededTasks : \A i \in Named(tls, Program[k].title) :
         tls[i].markers # {}

\* the part that holds: the project-wide pass applies the workaround, once,
\* to every timeline it seeds
C23_WorkaroundInPrinciplePass ==
  (PlacementFailed /\ last.op = "seed") =>
    /\ Count(last.trace, "ImportMedia") = 1
    /\ Count(last.trace, "AppendToTimeline") = 1
    /\ Len(last.seeds) = 2
    /\ last.seeds[2].force
    /\ last.seeds[2].added > 0
    /\ tls[last.idx].markers # {}

-----------------------------------------------------------------------------

\* the frame _sec_to_frames gives marker i of the pack under placement
PackFrame(i) == sec_to_frames(in_pack[i].t, FPS)

\* C24: one placement pass attempts the markers furthest first (the frames
\* of successive attempts never increase), whatever the order of the pack,
\* and attempts every marker of the pack exactly once.
C24_FurthestFirst ==
  out_calls # <<>> =>
    /\ Len(out_calls) = Len(in_pack)
    /\ \A i \in 1..(Len(out_calls) - 1) :
         out_calls[i].frame >= out_calls[i + 1].frame
    /\ \A i \in 1..Len(in_pack) :
         Cardinality({j \in 1..Len(out_calls) :
                        /\ out_calls[j].frame = PackFrame(i)
                        /\ out_calls[j].name = in_pack[i].name})
           = Cardinality({j \in 1..Len(in_pack) :
                            /\ PackFrame(j) = PackFrame(i)
                            /\ in_pack[j].name = in_pack[i].name})
    /\ \A j \in 1..Len(out_calls) : out_calls[j].tries # <<>>

\* a pack handed in nearest first is attempted furthest first
C24_Witness ==
  /\ out_calls # <<>>
  /\ Len(in_pack) >= 2
  /\ \A i \in 1..(Len(in_pack) - 1) : in_pack[i].t < in_pack[i + 1].t
  /\ out_calls[1].frame = PackFrame(Len(in_pack))
  /\ out_calls[Len(out_calls)].frame = PackFrame(1)
  /\ out_calls[1].frame > out_calls[Len(out_calls)].frame

-----------------------------------------------------------------------------

\* the colors of the AddMarker calls made for attempt j, in call order
TriedColors(j) == [k \in 1..Len(out_calls[j].tries) |-> out_calls[j].tries[k].color]

\* C25: every AddMarker call carries a color of the supported set; a color
\* outside the set is replaced before the first call (Magenta by Pink), a
\* color of the set is the color of the first call, and no later call of the
\* attempt carries an unsupported color.
C25_OnlySupportedColors ==
  \A j \in 1..Len(out_calls) :
    /\ \A k \in 1..Len(out_calls[j].tries) :
         out_calls[j].tries[k].color \in SUPPORTED_MARKER_COLORS
    /\ out_calls[j].declared \in SUPPORTED_MARKER_COLORS
         => TriedColors(j)[1] = out_calls[j].declared
    /\ out_calls[j].declared \notin SUPPORTED_MARKER_COLORS
         => TriedColors(j)[1] # out_calls[j].declared
    /\ out_calls[j].declared = "Magenta" => TriedColors(j)[1] = "Pink"

\* a Magenta marker placed as Pink and an Orange marker retried
C25_Witness ==
  /\ \E j \in 1..Len(out_calls) :
       /\ out_calls[j].declared = "Magenta"
       /\ TriedColors(j) = <<"Pink">>
       /\ out_calls[j].ok
  /\ \E j \in 1..Len(out_calls) :
       /\ out_calls[j].declared = "Orange"
       /\ TriedColors(j) = <<"Orange", "Yellow">>

-----------------------------------------------------------------------------

\* the folder the last folder call of main() was to find or make
LastTarget == LastParent \o <<Program[last.task].name>>

\* the media pool's AddSubFolder did not give the folder: it raised (a build
\* without it) or answered without a folder (a folder the host refuses)
FirstShapeFailed ==
  /\ "MediaPool.AddSubFolder" \in Range(last.trace)
  /\ (~api.mpAdd \/ Program[last.task].name \in api.refuse)

\* C26: a folder call below an existing parent makes no creation call when
\* the child is there; otherwise it calls the media pool's AddSubFolder, and
\* whenever that fails, by raising or by answering without a folder, the
\* parent's own AddSubFolder next.
C26_TwoCreationShapes ==
  (last.op = "folder" /\ LastParent # NoFolder) =>
    /\ (run = 1 /\ LastTarget \in start.folders) =>
         Range(last.trace) \cap {"MediaPool.AddSubFolder", "Folder.AddSubFolder"} = {}
    /\ (run = 1 /\ LastTarget \notin start.folders) =>
         "MediaPool.AddSubFolder" \in Range(last.trace)
    /\ "Folder.AddSubFolder" \in Range(last.trace) => FirstShapeFailed
    /\ FirstShapeFailed => "Folder.AddSubFolder" \in Range(last.trace)

\* the part that holds: the second shape follows a first shape that raised
C26_SecondShapeAfterRaise ==
  (last.op = "folder" /\ LastParent # NoFolder) =>
    /\ (run = 1 /\ LastTarget \in start.folders) =>
         Range(last.trace) \cap {"MediaPool.AddSubFolder", "Folder.AddSubFolder"} = {}
    /\ (run = 1 /\ LastTarget \notin start.folders) =>
         "MediaPool.AddSubFolder" \in Range(last.trace)
    /\ "Folder.AddSubFolder" \in Range(last.trace) <=>
         ("MediaPool.AddSubFolder" \in Range(last.trace) /\ ~api.mpAdd)
    /\ ("Folder.AddSubFolder" \in Range(last.trace)) => LastTarget \in folders

-----------------------------------------------------------------------------

\* the host of the placement takes the marker of attempt j: the timeline has
\* a duration and no marker on the frame yet
Placeable(j) ==
  /\ ~api.quirk
  /\ \A k \in 1..(j - 1) :
       out_calls[k].ok => out_calls[k].frame # out_calls[j].frame

Accepts6(j) == api.six /\ ~api.sixFalse /\ Placeable(j)

\* every build takes the 5-argument form
Accepts5(j) == Placeable(j)

FormsTried(j) == {out_calls[j].tries[k].form : k \in 1..Len(out_calls[j].tries)}

\* C27: a marker the host takes in the 6-argument or in the 5-argument form
\* is reported placed, whatever the other form does (raise or return False);
\* a marker is reported not placed only when the host takes it in neither
\* form; at most four AddMarker calls are made for one marker.
C27_EitherSignature ==
  \A j \in 1..Len(out_calls) :
    /\ (Accepts6(j) \/ Accepts5(j)) => out_calls[j].ok
    /\ ~out_calls[j].ok => (~Accepts6(j) /\ ~Accepts5(j))
    /\ Len(out_calls[j].tries) <= 4

\* the part that holds: the 5-argument form is tried exactly when the
\* 6-argument form raised
C27_FiveAfterRaise ==
  \A j \in 1..Len(out_calls) :
    /\ (5 \in FormsTried(j)) <=> ~api.six
    /\ (api.six /\ ~api.sixFalse /\ Placeable(j)) => out_calls[j].ok
    /\ (~api.six /\ Placeable(j)) => out_calls[j].ok
    /\ out_calls[j].ok => Placeable(j)
    /\ Len(out_calls[j].tries) <= 4

-----------------------------------------------------------------------------

\* the pack main() hands the declared timeline of the last step
LastTaskPack == Program[last.task].markers

\* C28: the pack of every declared timeline has pairwise distinct frames at
\* 29.97 fps, and a host that holds one marker per frame holds, after the
\* pack was placed on a newly created timeline, as many markers as the pack
\* has.
C28_DistinctFramesPerPack ==
  (last.op = "timeline" /\ last.idx > 0 /\ LastTaskPack # <<>>) =>
    /\ \A i, j \in 1..Len(LastTaskPack) :
         i # j => sec_to_frames(LastTaskPack[i].t, FPS)
                    # sec_to_frames(LastTaskPack[j].t, FPS)
    /\ (Cooperative(api) /\ last.created) =>
         Cardinality(tls[last.idx].markers) = Len(LastTaskPack)

\* the part that holds: the packs of the lane masters have distinct frames
\* and are placed whole
C28_MasterPacksDistinct ==
  (last.op = "timeline" /\ last.idx > 0 /\ LastTaskPack # <<>>
     /\ get_principle_markers_for_title(Program[last.task].title) = <<>>) =>
    /\ \A i, j \in 1..Len(LastTaskPack) :
         i # j => sec_to_frames(LastTaskPack[i].t, FPS)
                    # sec_to_frames(LastTaskPack[j].t, FPS)
    /\ (Cooperative(api) /\ last.created) =>
         Cardinality(tls[last.idx].markers) = Len(LastTaskPack)

-----------------------------------------------------------------------------

\* the report at hand is of a manifest just exported from this project
VerifiedOwnExport ==
  manifest # <<>> /\ manifest[1].origin = "export" /\ report # <<>>

CleanReport(rep) ==
  /\ \A k \in 1..Len(rep.details) : rep.details[k].status = "ok"
  /\ rep.errors = 0
  /\ rep.warnings = 0
  /\ VerifyExitCode(rep) = 0

\* C29: verifying a manifest just exported from the unchanged project gives
\* status ok for every timeline, no error, no warning and exit code 0, for
\* every tolerance, also when two timelines of the project have one name.
C29_ExportVerifyRoundTrip == VerifiedOwnExport => CleanReport(report[1])

\* the part that holds: projects whose timelines have distinct names
C29_RoundTripDistinctNames ==
  (VerifiedOwnExport
     /\ \A i, j \in 1..Len(tls) : i # j => tls[i].name # tls[j].name) =>
    /\ CleanReport(report[1])
    /\ Len(report[1].details) = Len(tls)

-----------------------------------------------------------------------------

\* the report at hand is of a manifest from elsewhere with one timeline,
\* verified against the one timeline of the project
VerifiedFile ==
  manifest # <<>> /\ manifest[1].origin = "file" /\ report # <<>>

ExpectedList == manifest[1].timelines[1].markers

ActualFrames == {m.frame : m \in tls[1].markers}

Distance(a, b) == IF a >= b THEN a - b ELSE b - a

\* the expected markers can be assigned one to one to distinct markers of
\* the timeline, each within the tolerance
Matchable(tolerance) ==
  \E g \in [1..Len(ExpectedList) -> ActualFrames] :
    /\ \A i, j \in 1..Len(ExpectedList) : i # j => g[i] # g[j]
    /\ \A i \in 1..Len(ExpectedList) :
         Distance(g[i], ExpectedList[i].frame_id) <= tolerance

\* C30: whenever the expected markers can be assigned one to one to distinct
\* actual markers within the tolerance, in whatever order they are listed,
\* the timeline is reported without error; the status is error exactly when
\* no such assignment exists, else warning exactly when there is a warning,
\* else ok.
C30_NoErrorWhenMatchable ==
  VerifiedFile =>
    LET d == report[1].details[1]
    IN  /\ Matchable(report[1].frame_tolerance) =>
             (d.errors = <<>> /\ d.status \in {"ok", "warning"})
        /\ d.status = "error" <=> ~Matchable(report[1].frame_tolerance)
        /\ d.status = "warning" <=>
             (Matchable(report[1].frame_tolerance) /\ d.warnings # <<>>)

\* the part that holds: the status follows the errors and warnings found
C30_StatusFollowsFindings ==
  VerifiedFile =>
    LET d == report[1].details[1]
    IN  /\ d.status = "error" <=> d.errors # <<>>
        /\ d.status = "warning" <=> (d.errors = <<>> /\ d.warnings # <<>>)
        /\ d.status = "ok" <=> (d.errors = <<>> /\ d.warnings = <<>>)
        /\ ~Matchable(report[1].frame_tolerance) => d.status = "error"
        /\ (report[1].frame_tolerance = 0 /\ Matchable(0)) => d.errors = <<>>
====
